---- MODULE Spec2Model ----
(***************************************************************************)
(* Model of ccmanager's session monitor (internal/daemon/monitor.go): the  *)
(* poll goroutine that discovers, tracks and retires tmux sessions running *)
(* Claude, the classifier it calls (internal/claude/detector.go), the      *)
(* buffered event channel it writes to and the consumer that drains it,    *)
(* the usage bookkeeping of the monitor (locked transcript ids, usage       *)
(* refresh, internal/usage/parser.go), readers of the tracked sessions,     *)
(* the components of internal/game (PomodoroTimer, ControlGroups,          *)
(* StreakTracker, APMTracker), the interface's handling of session events  *)
(* and keys (internal/tui/model.go), and the transcript watcher of         *)
(* internal/usage, which the monitor tells about discovered and retired    *)
(* sessions and whose entries nothing in the program reads.                *)
(*                                                                         *)
(* A captured pane is the sequence of its lines (strings.Split(content,    *)
(* "\n")); the lines come from a small vocabulary of real terminal lines,  *)
(* and each regexp group of the detector is modelled by the set of         *)
(* vocabulary lines it matches.  "<ESC>" stands for the byte 0x1b.         *)
(***************************************************************************)
EXTENDS Integers, Sequences, FiniteSets, TLC

\* ------------------------------------------------------------------ bounds
\* Capacity of eventCh.  The program uses 100 (monitor.go:80); the model
\* scales it down so that a full channel is reachable, and keeps room for
\* more than one event so that the order of the buffer matters.
EventChCap == 2

\* Largest number of assistant records the model lets a transcript file
\* grow to.
MaxTokens == 2

\* Configuration of the interval timer, in minutes.  The program's
\* defaults are 25, 5, 15 and 4 (engine.go, DefaultEngineConfig); the model
\* scales them down.
WorkMinutes == 2
ShortBreakMinutes == 1
LongBreakMinutes == 3
SessionsBeforeLongBreak == 2

\* Longest time, in minutes, the model lets pass without the timer's
\* last-tick reference being reset.
MaxElapsed == 2

\* Control groups.  The hotkeys of the program address groups 1..10; the
\* model draws the group numbers of its calls from 1..MaxGroupNum, except
\* where all ten groups matter.
MaxGroupNum == 2

\* The configured double-tap threshold (the program's default is 300 ms)
\* and the latest reading of the clock, in the same unit of time.
TapThreshold == 2
MaxTapClock == 3

\* The configured cap of the streak multiplier (the program's default is
\* 10.0); the model takes a whole number.
StreakMultiplierCap == 2

\* The configured rolling window of the action-rate tracker, in seconds
\* (the program's default is 60), and the number of actions recorded in a
\* run.
APMWindowSeconds == 61
MaxActions == 3

\* ------------------------------------------------------- input domains
\* tmux session names (tmux keeps them unique).
Names == {"a", "b"}

\* pane indices of a session, in the order ListPanes reports them
PaneIds == {0}

\* (*tmux.Pane)(nil)
NoPane == -1

\* ------------------------------------------------------------- detector
StateUnknown == "UNKNOWN"
StateIdle == "IDLE"
StateActive == "ACTIVE"
StateThinking == "THINKING"
StateUrgent == "URGENT"

\* d.ansiPattern.ReplaceAllString(line, "") on the vocabulary
stripANSILine(l) ==
  IF l = "<ESC>[1mAllow?<ESC>[0m" THEN "Allow?" ELSE l

stripANSI(content) == [i \in 1..Len(content) |-> stripANSILine(content[i])]

\* strings.TrimSpace on the vocabulary
TrimSpace(l) ==
  IF l = "   " THEN "" ELSE IF l = "claude>  " THEN "claude>" ELSE l

\* the lines matched by some pattern of each group
urgentPatterns == {"Allow?", "Proceed? [Y/n]"}
thinkingPatterns == {"Thinking... (esc to cancel)"}
idlePatterns == {"claude>", "claude>  "}
claudePatterns == {"Claude Code v1", "claude>", "claude>  "}

MatchString(pattern, lines) == \E i \in 1..Len(lines) : lines[i] \in pattern

IsClaudeSession(content) == MatchString(claudePatterns, stripANSI(content))

getLastLinesWhole(content, n) == content

getLastLines(content, n) ==
  IF Len(content) <= n THEN content
  ELSE SubSeq(content, Len(content) - n + 1, Len(content))

RECURSIVE lastNonEmpty(_, _)
lastNonEmpty(lines, i) ==
  IF i = 0 THEN ""
  ELSE IF TrimSpace(lines[i]) # "" THEN TrimSpace(lines[i])
  ELSE lastNonEmpty(lines, i - 1)

getLastNonEmptyLine(content) == lastNonEmpty(content, Len(content))

DetectState(content) ==
  LET lines == getLastLines(stripANSI(content), 20) IN
  IF MatchString(urgentPatterns, lines) THEN StateUrgent
  ELSE IF MatchString(thinkingPatterns, lines) THEN StateThinking
  ELSE IF MatchString(idlePatterns, lines) THEN StateIdle
  ELSE StateActive

\* variant of ParseInfo: LastLine is the capture's final line, blank or not
ParseInfoRawLast(content) ==
  [State |-> DetectState(stripANSI(content)),
   LastLine |-> IF content = <<>> THEN ""
                ELSE TrimSpace(stripANSI(content)[Len(content)])]

\* ParseInfo: only the LastLine field is used by the monitor's events
ParseInfo(content) ==
  [State |-> DetectState(stripANSI(content)),
   LastLine |-> getLastNonEmptyLine(stripANSI(content))]

\* ------------------------------------------------------ captured screens
ScrShell == <<"$ make test", "">>
ScrActive == <<"Claude Code v1", "$ make test", "">>
ScrIdle == <<"Claude Code v1", "claude>  ", "   ">>
ScrThinking == <<"Claude Code v1", "Thinking... (esc to cancel)", "">>
ScrUrgent == <<"Claude Code v1", "<ESC>[1mAllow?<ESC>[0m", "claude>", "">>

Screens == {ScrShell, ScrActive, ScrIdle, ScrThinking, ScrUrgent}

\* The contents given to the classifier on its own: a first line, a run
\* of lines no pattern matches, and a last line; with 19 lines in between
\* the first line is outside the last 20
DetectLines ==
  {"Allow?", "<ESC>[1mAllow?<ESC>[0m", "Proceed? [Y/n]",
   "Thinking... (esc to cancel)", "claude>", "claude>  ", "$ make test", ""}

Filler(k) == [i \in 1..k |-> "$ make test"]

DetectContents ==
  {<<first>> \o Filler(k) \o <<last>> :
     first \in DetectLines, last \in DetectLines, k \in {0, 18, 19}}

\* result of tmux.CapturePane / CapturePaneDefault: (content, err)
CaptureOutcomes ==
  {[err |-> TRUE, content |-> <<>>]} \cup
  {[err |-> FALSE, content |-> s] : s \in Screens}

\* result of tmux.ListPanes: (panes, err)
ListPanesOutcomes ==
  {[err |-> TRUE, panes |-> <<>>]} \cup
  {[err |-> FALSE, panes |-> p] : p \in {<<>>, <<0>>}}

\* result of tmux.ListSessions when it succeeds: the duplicate-free
\* sequences over the names tmux may hold
Listings(names) ==
  {<<>>} \cup {<<n>> : n \in names} \cup
  {<<p[1], p[2]>> : p \in {q \in names \X names : q[1] # q[2]}}

\* the screens the panes of each session may show in a run: "b" a shell
\* or a thinking Claude, and "a" anything, a shell or an idle Claude, or
\* an idle or a thinking Claude
RichScreens ==
  [n \in Names |-> IF n = "a" THEN Screens ELSE {ScrShell, ScrThinking}]

PlainScreens ==
  [n \in Names |-> IF n = "a" THEN {ScrShell, ScrIdle}
                   ELSE {ScrShell, ScrThinking}]

WorkScreens ==
  [n \in Names |-> IF n = "a" THEN {ScrIdle, ScrThinking}
                   ELSE {ScrShell, ScrThinking}]

ScreenEnvs == {RichScreens, PlainScreens, WorkScreens}

\* the ids of the transcript files (<id>.jsonl) that may appear
TranscriptIds == {"s1", "s2"}

\* the working directories that have a project directory under
\* ~/.claude/projects
ProjectDirs == {"/w"}

\* result of tmux.GetSessionPath with the error discarded (monitor.go:276):
\* "" when the call fails
WorkingDirs == {"", "/w"}

\* a nil *usage.SessionUsage
NoUsage == [SessionID |-> "", tokens |-> 0]

\* a Monitor built with a nil *store.Store
NilStore == [present |-> FALSE, id |-> [n \in Names |-> ""]]

\* the stores a Monitor may be built with: none, or one whose sessions
\* table holds for each name a claude_session_id ("": no row, or NULL)
Stores ==
  {NilStore} \cup
  {[present |-> TRUE, id |-> f] : f \in [Names -> TranscriptIds \cup {""}]}

\* ---------------------------------------------------------------- events
EventSessionDiscovered == "discovered"
EventSessionClosed == "closed"
EventStateChanged == "state-changed"
EventTaskCompleted == "task-completed"
EventUrgent == "urgent"
EventDebug == "debug"

\* Event{Type, Session, State, Message}; Time is not modelled.  Fields the
\* code leaves unset carry Go's zero values ("" and StateUnknown).
Event(type, session, state, message) ==
  [Type |-> type, Session |-> session, State |-> state, Message |-> message]

\* ----------------------------------------------------------------- state
VARIABLES
  sessions,       \* m.sessions: name -> SessionState (NoSession: no entry)
  eventCh,        \* m.eventCh: the buffered channel's contents, oldest first
  stopCh,         \* TRUE once close(m.stopCh) has run
  debug,          \* m.debug
  usagePollTick,  \* m.usagePollTick
  mu,             \* holder of m.mu's write lock: "none" or "poll"
  tickerC,        \* TRUE when a tick is waiting in ticker.C
  pc,             \* position of the pollLoop goroutine
  pollKind,       \* which call of poll() is running: "initial" or "tick"
  tmuxSessions,   \* poll(): the part of the listing not yet visited
  seen,           \* poll(): seen
  cur,            \* poll(): ts.Name, claudePane, content of the visit
  outbox,         \* events the goroutine is about to send, in program order
  live,           \* the session names tmux may hold in this run
  paths,          \* the results tmux.GetSessionPath may give in this run
  shown,          \* name -> the screens its panes may show in this run
  store,          \* m.store and its sessions.claude_session_id column
  files,          \* the transcript files of the project directory of
                  \* "/w", oldest modification first
  tokens,         \* transcript id -> its number of assistant records
  reader,         \* the records a caller of Sessions()/GetSession() holds
  pomodoro,       \* the PomodoroTimer: state, pausedState, remaining,
                  \* completed, and sinceTick = now - lastTick
  onComplete,     \* TRUE once a completion callback is registered
  \* history variables, reset when poll() returns
  listOK,         \* the running cycle got a listing
  listed,         \* the names of that listing
  trackedAtStart, \* the tracked names when the cycle began
  cycleObs,       \* name -> what this cycle observed for it
  cycleEvents,    \* name -> events this cycle produced for it, in order
  \* history variables of the event channel
  lastEv,         \* name -> type of the last event enqueued for it
  lifeOK,         \* every event enqueued so far was legal after lastEv
  lastSent,       \* <<Type, Session>> of the last event enqueued
  adjOK,          \* every task-completed was enqueued right after its
                  \* state-changed
  inflight,       \* non-debug events produced and not yet received
  recvOK,         \* every reception so far was the oldest inflight event
  sessAtStart,    \* m.sessions when the cycle began, for a cycle whose
                  \* listing failed
  idHist,         \* name -> the transcript id locked at discovery, where
                  \* it came from, and what last wrote the usage summary
  tickPolls,      \* ticker-driven polls that returned since the last
                  \* updateUsage
  \* history variables of the interval timer
  pLast,          \* the last operation on the timer, the timer before it,
                  \* the number of callback invocations it made, and
                  \* whether the operation before it was SetState
  pausedFrom,     \* the running state the timer was paused from, if it
                  \* was paused by Pause or Toggle
  sinceRef,       \* the time since the timer was last loaded, started,
                  \* resumed or ticked while running
  controlGrps,    \* the ControlGroups: groups and lastTap
  tapClock,       \* time.Now() as the control groups read it
  \* history variables of the control groups
  cgLast,         \* the last direct call on the control groups, its
                  \* arguments and results, and the groups before it
  cgRecent,       \* <<group, time>> of the Cycle calls made less than
                  \* the threshold ago
  streak,         \* the StreakTracker: activeSessions and multiplierCap
  \* history variables of the streak tracker
  streakCalls,    \* name -> the active argument of the last
                  \* SetSessionActive call for it ("none": no call yet)
  streakOut,      \* the last direct call on the tracker and what it
                  \* returned
  apm,            \* the APMTracker: actions and current
  apmClock,       \* time.Now() as Engine.RecordAction and Engine.Tick read
                  \* it, in seconds
  \* history variables of the action-rate tracker
  apmAll,         \* the times of all RecordAction calls, in call order
  apmLast,        \* the last call on the tracker and its time argument
  detIn,          \* the content a caller gives DetectState (<<>>: none)
  detOut,         \* what DetectState returned for it ("none": not called)
  toggleRead,     \* goroutine -> the state its running Toggle call has
                  \* read, if it is between the read and the call it makes
  \* history variable of concurrent calls on the timer
  lin,            \* the timers some sequential order of the calls made so
                  \* far gives, each with the running Toggle calls that
                  \* order has already placed
  concCalls,      \* the number of calls made on the timer by concurrent
                  \* callers
  jsonl,          \* the lines of the watched transcript file
  fileMod,        \* the file's modification time
  watch,          \* w.sessions: session name -> its sessionWatch
  wStat,          \* goroutine -> where it is in updateSession, for
                  \* which name, whether
                  \* the sessionWatch it was given is still the one in the
                  \* map (if not, what that one recorded), what the
                  \* change test read from it, what os.Stat returned and
                  \* what the parse gave
  updateCh,       \* the number of names in Watcher.updateCh
  usageSum,       \* a TokenUsage that usages are added to
  \* history variables of the usage package
  wLast,          \* the last step on the transcript or of updateSession
  usageAdded,     \* the usages added to usageSum, in order
  usageTodo,      \* updateUsage: the entries of sessionsToUpdate the loop
                  \* has still to take
  usageCur,       \* updateUsage: the name and the summary read for the
                  \* entry taken, before they are assigned
  needsValidation,\* Model.needsValidation
  tuiMsg,         \* the SessionEventMsg the interface has still to handle
                  \* (NoEvent: its monitorCmd is waiting on the channel)
  tuiPc,          \* where Update is in handleSessionEvent ("idle": not
                  \* inside it)
  tuiSessions,    \* the names of m.sessions, the interface's copy of the
                  \* tracked sessions
  \* history variable of the interface
  tuiLast         \* the closed event the interface handled last, if it
                  \* has handled no other message since, and whether its
                  \* session was held by a group and active in the streak
                  \* tracker before

vars == <<sessions, eventCh, stopCh, debug, usagePollTick, mu, tickerC, pc,
          pollKind, tmuxSessions, seen, cur, outbox, live, listOK, listed,
          trackedAtStart, cycleObs, cycleEvents, lastEv, lifeOK, lastSent,
          adjOK, inflight, recvOK, paths, shown, store, files, tokens, reader,
          sessAtStart, idHist, tickPolls, pomodoro, onComplete, pLast,
          pausedFrom, sinceRef, controlGrps, tapClock, cgLast, cgRecent,
          streak, streakCalls, streakOut, tuiMsg, tuiPc, tuiSessions,
          tuiLast, apm, apmClock, apmAll, apmLast, detIn, detOut, toggleRead, lin,
          concCalls, needsValidation, jsonl, fileMod, watch, wStat,
          updateCh, wLast, usageSum, usageAdded, usageTodo, usageCur>>

\* the variables of the usage bookkeeping and of the readers
extVars == <<paths, shown, store, files, tokens, reader, sessAtStart, idHist,
             tickPolls>>

\* the variables of the interval timer
timerVars == <<pomodoro, onComplete, pLast, pausedFrom, sinceRef>>

\* the variables of the control groups
groupVars == <<controlGrps, tapClock, cgLast, cgRecent>>

\* the variables of the streak tracker
streakVars == <<streak, streakCalls, streakOut>>

\* the variables of the interface
tuiVars == <<tuiMsg, tuiPc, tuiSessions, tuiLast, needsValidation>>

\* the variables of the action-rate tracker
apmVars == <<apm, apmClock, apmAll, apmLast>>

\* the variables of a call of the classifier
detVars == <<detIn, detOut>>

\* the variables of concurrent calls on the interval timer
concVars == <<toggleRead, lin, concCalls>>

\* the variables of the transcript, its watcher and an accumulated usage
fileVars == <<jsonl, fileMod, watch, wStat, updateCh, wLast, usageSum,
              usageAdded>>

\* the variables of the locals of updateUsage
refreshVars == <<usageTodo, usageCur>>

\* the variables of the components other than the monitor, but for the
\* watcher's map and the goroutines in updateSession
unwatchVars == <<timerVars, groupVars, streakVars, tuiVars, apmVars,
                 detVars, concVars, jsonl, fileMod, updateCh, wLast,
                 usageSum, usageAdded, refreshVars>>

\* the variables of the components other than the monitor, and the
\* locals of updateUsage
otherVars == <<timerVars, groupVars, streakVars, tuiVars, apmVars, detVars, concVars, fileVars, refreshVars>>

\* the variables of the monitor, but for its store
noStoreVars == <<sessions, eventCh, stopCh, debug, usagePollTick, mu,
                 tickerC, pc, pollKind, tmuxSessions, seen, cur, outbox,
                 live, listOK, listed, trackedAtStart, cycleObs,
                 cycleEvents, lastEv, lifeOK, lastSent, adjOK, inflight,
                 recvOK, paths, shown, files, tokens, reader, sessAtStart,
                 idHist, tickPolls>>

\* the variables of the monitor
monitorVars == <<noStoreVars, store>>

\* the variables of everything but the interval timer, and of everything
\* but the control groups
notTimerVars ==
  <<monitorVars, groupVars, streakVars, tuiVars, apmVars, detVars, concVars, fileVars, refreshVars>>
notGroupVars ==
  <<monitorVars, timerVars, streakVars, tuiVars, apmVars, detVars, concVars, fileVars, refreshVars>>
notStreakVars ==
  <<monitorVars, timerVars, groupVars, tuiVars, apmVars, detVars, concVars, fileVars, refreshVars>>
notApmVars ==
  <<monitorVars, timerVars, groupVars, streakVars, tuiVars, detVars, concVars, fileVars, refreshVars>>
notDetVars ==
  <<monitorVars, timerVars, groupVars, streakVars, tuiVars, apmVars,
    concVars, fileVars, refreshVars>>

notConcVars ==
  <<monitorVars, groupVars, streakVars, tuiVars, apmVars, detVars,
    fileVars, refreshVars>>

notFileVars ==
  <<monitorVars, timerVars, groupVars, streakVars, tuiVars, apmVars, detVars, concVars,
    refreshVars>>

notRefreshVars ==
  <<monitorVars, timerVars, groupVars, streakVars, tuiVars, apmVars, detVars, concVars, fileVars>>

histVars == <<live, listOK, listed, trackedAtStart, cycleObs, cycleEvents,
              lastEv, lifeOK, lastSent, adjOK, inflight, recvOK>>

\* m.sessions[name] when the map has no entry for name
NoSession ==
  [Name |-> "", State |-> StateUnknown, LastContent |-> <<>>,
   LastLine |-> "", ClaudePane |-> NoPane, WorkingDir |-> "",
   ClaudeSessionID |-> "", Usage |-> NoUsage]

\* no record held by the reader for a name
NoRef == [held |-> FALSE, via |-> "", taken |-> NoSession,
          obj |-> NoSession, attached |-> FALSE]

NoIdHist == [locked |-> "", got |-> "", newest |-> "", usageFrom |-> "none"]

NoEvent == Event("none", "", StateUnknown, "")
\* the locals of one visit of poll()'s loop body: ts.Name, claudePane and
\* content, and, once the locked section has set them, oldState,
\* workingDir, claudeSessionID and initialUsage
NoCur ==
  [Name |-> "", ClaudePane |-> NoPane, content |-> <<>>,
   oldState |-> StateUnknown, workingDir |-> "", claudeSessionID |-> "",
   initialUsage |-> NoUsage]

\* updateUsage is not between a read and its assignment
NoRefresh == [name |-> "", usage |-> NoUsage]
NoObs == [kind |-> "none", old |-> StateUnknown, content |-> <<>>,
          anyMon |-> FALSE, rec |-> NoSession]

Tracked == {n \in Names : sessions[n] # NoSession}

NonDebug(q) == SelectSeq(q, LAMBDA e : e.Type # EventDebug)

Range(f) == {f[i] : i \in DOMAIN f}

\* PomodoroState (iota)
PomodoroStopped == 0
PomodoroPaused == 1
PomodoroWork == 2
PomodoroShortBreak == 3
PomodoroLongBreak == 4

\* NewPomodoroTimer: the zero values of the fields it does not set
NewPomodoroTimer ==
  [state |-> PomodoroStopped, pausedState |-> PomodoroStopped,
   remaining |-> 0, sinceTick |-> 0, completed |-> 0]

\* no arguments of SetState
NoArg == [stateStr |-> "", remaining |-> 0]

NoOp == [op |-> "none", before |-> NewPomodoroTimer, calls |-> 0,
         from |-> [known |-> FALSE, state |-> PomodoroStopped],
         ref |-> 0, arg |-> NoArg, afterLoad |-> FALSE]

\* NewControlGroups (part_003 lines 19-25): two empty maps
NewControlGroups ==
  [groups |-> [g \in {} |-> ""], lastTap |-> [g \in {} |-> 0]]

\* the record of "no operation yet" on the control groups
NoCg ==
  [op |-> "none", groupNum |-> 0, session |-> "",
   before |-> NewControlGroups.groups, ret |-> "", free |-> 0,
   doubleTap |-> FALSE, recent |-> FALSE]

\* The session names the streak tracker is told about
StreakNames == Names \cup {"c", "d"}

\* NewStreakTracker (part_002 lines 13-18)
NewStreakTracker ==
  [activeSessions |-> [n \in {} |-> TRUE],
   multiplierCap |-> StreakMultiplierCap]

\* the record of "no call yet" on the streak tracker
NoStreakOut == [op |-> "none", count |-> 0, mult |-> 0]

\* TokenUsage (types.go lines 6-11); the zero value
ZeroUsage ==
  [InputTokens |-> 0, OutputTokens |-> 0, CacheCreationInputTokens |-> 0,
   CacheReadInputTokens |-> 0]

\* sessionWatch.usage == nil
NoParsed == [parsed |-> FALSE, TotalUsage |-> ZeroUsage, Model |-> ""]

\* the sessionWatch WatchSession creates (parser_test.go lines 254-256): the
\* zero values of lastSize, lastMod and usage; the zero time is 0
NewSessionWatch ==
  [present |-> TRUE, lastSize |-> 0, lastMod |-> 0, usage |-> NoParsed]

\* w.sessions[name] when the map has no entry for the name
NoWatch ==
  [present |-> FALSE, lastSize |-> 0, lastMod |-> 0, usage |-> NoParsed]

\* the goroutines that run updateSession: the watcher's pollLoop and a
\* caller of RefreshSession
Updaters == {"poll", "refresh"}

\* the watcher goroutine is not inside updateSession
NoStat ==
  [pc |-> "idle", name |-> "", attached |-> FALSE,
   rec |-> [lastSize |-> 0, lastMod |-> 0],
   saw |-> [lastSize |-> 0, lastMod |-> 0],
   size |-> 0, mod |-> 0, usage |-> NoParsed]

\* no call of updateSession has just returned
NoWatchLast ==
  [op |-> "none", parsed |-> FALSE, size |-> 0, mod |-> 0, recSize |-> 0,
   recMod |-> 0, wrote |-> FALSE, usageBefore |-> NoParsed,
   usageAfter |-> NoParsed, chBefore |-> 0]

\* The most lines the transcript gets and the most usages added to a total
MaxLines == 3
MaxAdds == 3

\* the modification times the transcript shows
ModTimes == {1, 2}

\* Capacity of Watcher.updateCh.  The program uses 100 (parser_test.go
\* line 199).
UpdateChCap == 1

\* The number of calls concurrent callers make on the timer
MaxConcCalls == 4

\* The goroutines that call Toggle concurrently
Goroutines == {1, 2}

\* a goroutine that is not inside Toggle
NoRead == [reading |-> FALSE, state |-> PomodoroStopped]

\* NewAPMTracker (apm.go lines 17-22)
NewAPMTracker == [actions |-> <<>>, current |-> 0]

\* the record of "no call yet" on the action-rate tracker
NoApmLast == [op |-> "none", now |-> 0]

\* the record of "the last message handled was not a closed event"
NoTuiLast ==
  [Type |-> "none", Session |-> "", held |-> FALSE, active |-> FALSE]

\* what tmux.CapturePane may give for a pane of the session
CapturesOf(name) ==
  {c \in CaptureOutcomes : c.err \/ c.content \in shown[name]}

\* NewMonitor, NewPomodoroTimer for the timer, NewControlGroups,
\* NewStreakTracker, tui.New
Init ==
  /\ sessions = [n \in Names |-> NoSession]
  /\ eventCh = <<>>
  /\ stopCh = FALSE
  /\ debug \in BOOLEAN
  /\ usagePollTick = 0
  /\ mu = "none"
  /\ tickerC = FALSE
  /\ pc = "new"
  /\ pollKind = "initial"
  /\ tmuxSessions = <<>>
  /\ seen = {}
  /\ cur = NoCur
  /\ outbox = <<>>
  /\ live \in SUBSET Names
  /\ listOK = FALSE
  /\ listed = {}
  /\ trackedAtStart = {}
  /\ cycleObs = [n \in Names |-> NoObs]
  /\ cycleEvents = [n \in Names |-> <<>>]
  /\ lastEv = [n \in Names |-> "none"]
  /\ lifeOK = TRUE
  /\ lastSent = <<"none", "">>
  /\ adjOK = TRUE
  /\ inflight = <<>>
  /\ recvOK = TRUE
  /\ paths \in (SUBSET WorkingDirs) \ {{}}
  /\ shown \in ScreenEnvs
  /\ store \in Stores
  /\ files = <<>>
  /\ tokens = [id \in TranscriptIds |-> 0]
  /\ reader = [n \in Names |-> NoRef]
  /\ sessAtStart = [n \in Names |-> NoSession]
  /\ idHist = [n \in Names |-> NoIdHist]
  /\ tickPolls = 0
  /\ pomodoro = NewPomodoroTimer
  /\ onComplete = FALSE
  /\ pLast = NoOp
  /\ pausedFrom = [known |-> FALSE, state |-> PomodoroStopped]
  /\ sinceRef = 0
  /\ controlGrps = NewControlGroups
  /\ tapClock = 0
  /\ cgLast = NoCg
  /\ cgRecent = {}
  /\ streak = NewStreakTracker
  /\ streakCalls = [n \in StreakNames |-> "none"]
  /\ streakOut = NoStreakOut
  /\ tuiMsg = NoEvent
  /\ tuiPc = "idle"
  /\ tuiSessions = {}
  /\ tuiLast = NoTuiLast
  /\ needsValidation = TRUE
  /\ jsonl = <<>>
  /\ fileMod = 1
  /\ watch = [n \in Names |-> NoWatch]
  /\ wStat = [g \in Updaters |-> NoStat]
  /\ updateCh = 0
  /\ wLast = NoWatchLast
  /\ usageSum = ZeroUsage
  /\ usageAdded = <<>>
  /\ usageTodo = <<>>
  /\ usageCur = NoRefresh
  /\ apm = NewAPMTracker
  /\ apmClock = 0
  /\ apmAll = <<>>
  /\ apmLast = NoApmLast
  /\ detIn \in DetectContents \cup {<<>>}
  /\ detOut = "none"
  /\ toggleRead = [g \in Goroutines |-> NoRead]
  /\ lin = {[t |-> NewPomodoroTimer, done |-> {}]}
  /\ concCalls = 0

\* debugLog: the events it sends for one message
debugLog(message) ==
  IF ~debug THEN <<>>
  ELSE <<Event(EventDebug, "", StateUnknown, message)>>

\* Start: go m.pollLoop(); the goroutine creates its ticker and is about to
\* run the initial poll
Start ==
  /\ pc = "new"
  /\ pc' = "poll"
  /\ pollKind' = "initial"
  /\ UNCHANGED <<sessions, eventCh, stopCh, debug, usagePollTick, mu, tickerC,
                 tmuxSessions, seen, cur, outbox>>
  /\ UNCHANGED histVars
  /\ UNCHANGED extVars
  /\ UNCHANGED otherVars

\* Stop: close(m.stopCh)
Stop ==
  /\ pc # "new"
  /\ ~stopCh
  /\ stopCh' = TRUE
  /\ UNCHANGED <<sessions, eventCh, debug, usagePollTick, mu, tickerC, pc,
                 pollKind, tmuxSessions, seen, cur, outbox>>
  /\ UNCHANGED histVars
  /\ UNCHANGED extVars
  /\ UNCHANGED otherVars

\* the runtime delivers a tick into ticker.C (buffer of one) while the
\* ticker is live
Tick ==
  /\ pc \notin {"new", "exited"}
  /\ ~tickerC
  /\ tickerC' = TRUE
  /\ UNCHANGED <<sessions, eventCh, stopCh, debug, usagePollTick, mu, pc,
                 pollKind, tmuxSessions, seen, cur, outbox>>
  /\ UNCHANGED histVars
  /\ UNCHANGED extVars
  /\ UNCHANGED otherVars

\* pollLoop's select when stopCh is readable: return (deferred ticker.Stop)
SelectStop ==
  /\ pc = "select"
  /\ stopCh
  /\ pc' = "exited"
  /\ UNCHANGED <<sessions, eventCh, stopCh, debug, usagePollTick, mu, tickerC,
                 pollKind, tmuxSessions, seen, cur, outbox>>
  /\ UNCHANGED histVars
  /\ UNCHANGED extVars
  /\ UNCHANGED otherVars

\* pollLoop's select when ticker.C is readable: m.poll().  When both
\* channels are readable Go's select takes either case.
SelectTick ==
  /\ pc = "select"
  /\ tickerC
  /\ tickerC' = FALSE
  /\ pc' = "poll"
  /\ pollKind' = "tick"
  /\ UNCHANGED <<sessions, eventCh, stopCh, debug, usagePollTick, mu,
                 tmuxSessions, seen, cur, outbox>>
  /\ UNCHANGED histVars
  /\ UNCHANGED extVars
  /\ UNCHANGED otherVars

\* variant of listSessions: a failed listing counts as an empty one
listSessionsEmptyOnError(running, listErr, listing) ==
  IF ~running THEN [ok |-> FALSE, sessions |-> <<>>]
  ELSE IF listErr THEN [ok |-> TRUE, sessions |-> <<>>]
  ELSE [ok |-> TRUE, sessions |-> listing]

\* poll(), lines 212-221: what poll() goes on with after IsRunning and
\* ListSessions; ok is FALSE where poll() returns
listSessions(running, listErr, listing) ==
  IF ~running THEN [ok |-> FALSE, sessions |-> <<>>]
  ELSE IF listErr THEN [ok |-> FALSE, sessions |-> <<>>]
  ELSE [ok |-> TRUE, sessions |-> listing]

\* poll(), lines 212-226: IsRunning, ListSessions, the first debugLog
PollBegin ==
  /\ pc = "poll"
  /\ \E running \in BOOLEAN :
     \E listErr \in (IF running THEN BOOLEAN ELSE {FALSE}) :
     \E listing \in (IF running /\ ~listErr THEN Listings(live) ELSE {<<>>}) :
       LET r == listSessions(running, listErr, listing) IN
       /\ listOK' = (running /\ ~listErr)
       /\ sessAtStart' = IF running /\ ~listErr
                         THEN [n \in Names |-> NoSession]
                         ELSE sessions
       /\ listed' = IF running /\ ~listErr THEN Range(listing) ELSE listed
       /\ IF r.ok
          THEN /\ outbox' = debugLog("Poll: n tmux sessions")
               /\ tmuxSessions' = r.sessions
               /\ seen' = {}
               /\ pc' = "loop"
          ELSE /\ outbox' = debugLog(IF running THEN "ListSessions error"
                                     ELSE "tmux not running")
               /\ pc' = "return"
               /\ UNCHANGED <<tmuxSessions, seen>>
  /\ trackedAtStart' = Tracked
  /\ UNCHANGED <<sessions, eventCh, stopCh, debug, usagePollTick, mu, tickerC,
                 pollKind, cur, live, cycleObs, cycleEvents, lastEv, lifeOK,
                 lastSent, adjOK, inflight, recvOK>>
  /\ UNCHANGED <<paths, shown, store, files, tokens, reader, idHist, tickPolls>>
  /\ UNCHANGED otherVars

\* findClaudePane: the first listed pane whose capture is a Claude screen
RECURSIVE scanPanes(_, _, _)
scanPanes(panes, caps, i) ==
  IF i > Len(panes) THEN [pane |-> NoPane, content |-> <<>>]
  ELSE IF ~caps[panes[i]].err /\ IsClaudeSession(caps[panes[i]].content)
  THEN [pane |-> panes[i], content |-> caps[panes[i]].content]
  ELSE scanPanes(panes, caps, i + 1)

findClaudePane(lp, caps) ==
  IF lp.err
  THEN [pane |-> NoPane, content |-> <<>>, log |-> debugLog("ListPanes error")]
  ELSE [pane |-> scanPanes(lp.panes, caps, 1).pane,
        content |-> scanPanes(lp.panes, caps, 1).content,
        log |-> <<>>]

\* variant of markSeen: the session is marked only after the `continue`s
markSeenIfFound(seenNames, name, found) ==
  IF found THEN seenNames \cup {name} ELSE seenNames

\* poll(), line 229: seen[ts.Name] = true, the first statement of the loop
\* body
markSeen(seenNames, name, found) == seenNames \cup {name}

\* the rest of one visit of the loop body once the captures are made
\* (lines 253-264): either `continue` or go on to the locked update
Visit(ts, found, pane, content, log, anyMon) ==
  /\ seen' = markSeen(seen, ts, found)
  /\ IF found
     THEN /\ cur' = [NoCur EXCEPT !.Name = ts, !.ClaudePane = pane,
                                  !.content = content]
          /\ outbox' = log \o debugLog("Claude=true")
          /\ pc' = "update"
          /\ UNCHANGED <<tmuxSessions, cycleObs>>
     ELSE /\ cur' = NoCur
          /\ outbox' = log
          /\ pc' = "loop"
          /\ tmuxSessions' = Tail(tmuxSessions)
          /\ cycleObs' = [cycleObs EXCEPT ![ts] =
               [kind |-> "skipped", old |-> sessions[ts].State,
                content |-> <<>>, anyMon |-> anyMon, rec |-> sessions[ts]]]
  /\ UNCHANGED <<sessions, eventCh, stopCh, debug, usagePollTick, mu, tickerC,
                 pollKind, live, listOK, listed, trackedAtStart, cycleEvents,
                 lastEv, lifeOK, lastSent, adjOK, inflight, recvOK>>
  /\ UNCHANGED extVars
  /\ UNCHANGED otherVars

Mon(c) == ~c.err /\ IsClaudeSession(c.content)

\* poll(), lines 228-264: one iteration's captures
Capture ==
  /\ pc = "loop"
  /\ outbox = <<>>
  /\ tmuxSessions # <<>>
  /\ LET ts == Head(tmuxSessions)
         knownPane == sessions[ts].ClaudePane
     IN
     \E kc \in (IF knownPane # NoPane THEN CapturesOf(ts)
                ELSE {[err |-> TRUE, content |-> <<>>]}) :
       IF knownPane # NoPane /\ ~kc.err /\ IsClaudeSession(kc.content)
       THEN Visit(ts, TRUE, knownPane, kc.content, <<>>, TRUE)
       ELSE
         \E lp \in ListPanesOutcomes :
         \E caps \in [Range(lp.panes) -> CapturesOf(ts)] :
           LET f == findClaudePane(lp, caps)
               paneMon == \E p \in Range(lp.panes) : Mon(caps[p])
           IN
           IF f.pane # NoPane
           THEN Visit(ts, TRUE, f.pane, f.content, f.log, paneMon)
           ELSE
             \E dc \in CapturesOf(ts) :
               IF dc.err
               THEN Visit(ts, FALSE, NoPane, <<>>,
                          f.log \o debugLog("capture error"),
                          Mon(kc) \/ paneMon \/ Mon(dc))
               ELSE IF ~IsClaudeSession(dc.content)
               THEN Visit(ts, FALSE, NoPane, <<>>, f.log,
                          Mon(kc) \/ paneMon \/ Mon(dc))
               ELSE Visit(ts, TRUE, NoPane, dc.content, f.log, Mon(dc))

\* variant of discoveredEvents: a discovery also reports a state change
discoveredEventsAndChange(name, state) ==
  <<Event(EventSessionDiscovered, name, state, ""),
    Event(EventStateChanged, name, state, "")>>

\* the event sent for a session that was not in the map (lines 317-322)
discoveredEvents(name, state) ==
  <<Event(EventSessionDiscovered, name, state, "")>>

\* variant of changedEvents: the oldState != newState test is missing
changedEventsAlways(name, oldState, newState, lastLine) ==
  <<Event(EventStateChanged, name, newState, "")>>
  \o (IF oldState = StateThinking /\ newState \in {StateIdle, StateActive}
      THEN <<Event(EventTaskCompleted, name, newState, "")>>
      ELSE <<>>)
  \o (IF newState = StateUrgent
      THEN <<Event(EventUrgent, name, newState, lastLine)>>
      ELSE <<>>)

\* variant of changedEvents: any exit from thinking counts as a completed
\* task
changedEventsAnyExit(name, oldState, newState, lastLine) ==
  IF oldState = newState THEN <<>>
  ELSE <<Event(EventStateChanged, name, newState, "")>>
       \o (IF oldState = StateThinking
           THEN <<Event(EventTaskCompleted, name, newState, "")>>
           ELSE <<>>)
       \o (IF newState = StateUrgent
           THEN <<Event(EventUrgent, name, newState, lastLine)>>
           ELSE <<>>)

\* the events sent for a session that was in the map (lines 339-365)
changedEvents(name, oldState, newState, lastLine) ==
  IF oldState = newState THEN <<>>
  ELSE <<Event(EventStateChanged, name, newState, "")>>
       \o (IF oldState = StateThinking /\ newState \in {StateIdle, StateActive}
           THEN <<Event(EventTaskCompleted, name, newState, "")>>
           ELSE <<>>)
       \o (IF newState = StateUrgent
           THEN <<Event(EventUrgent, name, newState, lastLine)>>
           ELSE <<>>)

\* usage.FindActiveSessionID: the id of the most recently modified
\* transcript in the project directory of workingDir; "" when there is no
\* project directory (the error is discarded by the caller) or no file
FindActiveSessionID(workingDir) ==
  IF workingDir \notin ProjectDirs THEN ""
  ELSE IF files = <<>> THEN ""
  ELSE files[Len(files)]

\* usage.ParseSessionFile of <id>.jsonl: the session id comes from the
\* file name, the totals from the assistant records
ParseSessionFile(id) == [SessionID |-> id, tokens |-> tokens[id]]

\* usage.GetSessionByID (lines 227-250) with the error discarded, as its
\* callers use it: NoUsage for an empty id, a missing project directory,
\* a missing file, and a file that ParseSessionFile fails to open or to
\* scan (parseErr)
GetSessionByID(workingDir, sessionID, parseErr) ==
  IF sessionID = "" THEN NoUsage
  ELSE IF workingDir \notin ProjectDirs THEN NoUsage
  ELSE IF sessionID \notin Range(files) THEN NoUsage
  ELSE IF parseErr THEN NoUsage
  ELSE ParseSessionFile(sessionID)

\* store.GetClaudeSessionID behind the m.store != nil test (line 280).
\* The query may fail (sqlite.go lines 522-524: "" and the error); the
\* caller discards the error (line 281), so a failed read looks like a
\* name the store holds no id for.
GetClaudeSessionID(name, err) ==
  IF store.present /\ ~err THEN store.id[name] ELSE ""

\* store.CreateSession followed by store.SetClaudeSessionID (lines
\* 287-288), both errors discarded: the store afterwards.  err: a
\* statement failed and the id was not written to the row of the name.
SetClaudeSessionID(name, id, err) ==
  IF err THEN store ELSE [store EXCEPT !.id[name] = id]

\* store.DeleteSession (sqlite.go lines 416-424) behind the m.store != nil
\* test of its caller, which discards the error: the row of the name is
\* gone, and with it the claude_session_id it held, unless the statement
\* failed (err)
DeleteSession(name, err) ==
  IF store.present /\ ~err THEN [store EXCEPT !.id[name] = ""] ELSE store

\* variant: the newest transcript is locked whatever the store returned
lockTranscriptNewest(name, workingDir, getErr, setErr) ==
  LET found == IF workingDir # "" THEN FindActiveSessionID(workingDir)
               ELSE ""
  IN
  [id |-> found,
   store |-> IF store.present /\ found # ""
             THEN SetClaudeSessionID(name, found, setErr)
             ELSE store]

\* lines 278-290: the transcript id locked for a newly discovered session
\* and the store after it; getErr and setErr: the read and the write of
\* the store fail
lockTranscript(name, workingDir, getErr, setErr) ==
  LET stored == GetClaudeSessionID(name, getErr) IN
  IF stored = "" /\ workingDir # ""
  THEN LET found == FindActiveSessionID(workingDir) IN
       [id |-> found,
        store |-> IF store.present /\ found # ""
                  THEN SetClaudeSessionID(name, found, setErr)
                  ELSE store]
  ELSE [id |-> stored, store |-> store]

\* Watcher.WatchSession (parser_test.go lines 220-258): the map after the
\* call; found: the project directory exists and a transcript in it could
\* be examined
watchSession(name, found) ==
  IF found /\ ~watch[name].present
  THEN [watch EXCEPT ![name] = NewSessionWatch]
  ELSE watch

\* Watcher.UnwatchSession (lines 261-265): the map after the call
unwatchSession(name) == [watch EXCEPT ![name] = NoWatch]

\* the goroutines in updateSession after UnwatchSession(name): one that
\* was given the sessionWatch of the name keeps its pointer to it
unwatched(name) ==
  [g \in Updaters |->
     IF wStat[g].attached /\ wStat[g].name = name
     THEN [wStat[g] EXCEPT
             !.attached = FALSE,
             !.rec = [lastSize |-> watch[name].lastSize,
                      lastMod |-> watch[name].lastMod]]
     ELSE wStat[g]]

\* the record created for a session that was not in the map (lines
\* 295-309)
newSession(name, pane, content, workingDir, claudeSessionID, initialUsage) ==
  [Name |-> name,
   State |-> DetectState(content),
   LastContent |-> content,
   LastLine |-> ParseInfo(content).LastLine,
   ClaudePane |-> pane,
   WorkingDir |-> workingDir,
   ClaudeSessionID |-> claudeSessionID,
   Usage |-> initialUsage]

\* variant of assignState: the new state is not stored
assignStateKept(existing, content) == existing

\* lines 325 and 328: existing.State = newState
assignState(existing, content) ==
  [existing EXCEPT !.State = DetectState(content)]

\* what a pointer to the record of name shows after the map's record was
\* assigned to in place
through(ref, rec) == IF ref.attached THEN [ref EXCEPT !.obj = rec] ELSE ref

\* the end of a visit that went through the locked section (lines 315-322
\* and 337-365): m.mu.Unlock(), and the events the visit has to send are
\* handed to the channel one after the other
handOver(name, oldState, evs) ==
  /\ mu' = "none"
  /\ outbox' = evs
  /\ cycleObs' = [cycleObs EXCEPT ![name] =
       [kind |-> "processed", old |-> oldState, content |-> cur.content,
        anyMon |-> TRUE, rec |-> NoSession]]
  /\ cycleEvents' = [cycleEvents EXCEPT ![name] = @ \o evs]
  /\ inflight' = inflight \o evs
  /\ cur' = NoCur
  /\ tmuxSessions' = Tail(tmuxSessions)
  /\ pc' = "loop"
  /\ UNCHANGED <<eventCh, stopCh, debug, usagePollTick, tickerC, pollKind,
                 seen, live, listOK, listed, trackedAtStart, lastEv, lifeOK,
                 lastSent, adjOK, recvOK>>
  /\ UNCHANGED <<paths, shown, files, tokens, sessAtStart, tickPolls>>

\* poll(), lines 266-290 and 323-328: m.mu.Lock() and the test whether the
\* map holds the name.
\*
\* For a name it holds, the assignments to the fields of its record begin
\* (lines 328-335).  They are separate writes to the record every pointer
\* handed out by Sessions() and GetSession() leads to, so a reader that
\* holds such a pointer sees the record after each of them: with a reader
\* attached this step is the first assignment, and UpdateContent,
\* UpdateLastLine and UpdatePane are the others.  With no such reader
\* nothing tells the states between the assignments from the one after
\* them (the lock is held; of the fields assigned, the interface's
\* handlers modelled here read State only, which is assigned first), and
\* the step goes on to the unlock.
\*
\* For a new name: what tmux gives as its path, the store's id, the newest
\* transcript of the directory and the write to the store.  The read of
\* the store does not look at the directory and the write does not change
\* what was read, so whatever else touches the store or the directory in
\* between can be taken to come before the read or after the write.  A
\* session without a working directory has no transcript read and is not
\* handed to the watcher: its record is created and the lock released in
\* this step.  For one with a working directory the directory is read
\* again at later instants, in InitialUsage and in Discover.
Update ==
  /\ pc = "update"
  /\ outbox = <<>>
  /\ mu = "none"
  /\ LET name == cur.Name
         existing == sessions[name]
         newState == DetectState(cur.content)
         info == ParseInfo(cur.content)
     IN
     IF existing # NoSession
     THEN /\ UNCHANGED <<store, idHist, otherVars>>
          /\ IF reader[name].attached
             THEN /\ sessions' = [sessions EXCEPT ![name] =
                       assignState(existing, cur.content)]
                  /\ reader' = [reader EXCEPT ![name] =
                       through(@, sessions'[name])]
                  /\ cur' = [cur EXCEPT !.oldState = existing.State]
                  /\ mu' = "poll"
                  /\ pc' = "content"
                  /\ UNCHANGED <<eventCh, stopCh, debug, usagePollTick,
                                 tickerC, pollKind, tmuxSessions, seen,
                                 outbox>>
                  /\ UNCHANGED histVars
                  /\ UNCHANGED <<paths, shown, files, tokens, sessAtStart,
                                 tickPolls>>
             ELSE /\ sessions' = [sessions EXCEPT ![name] =
                       [assignState(existing, cur.content) EXCEPT
                          !.LastContent = cur.content,
                          !.LastLine = info.LastLine,
                          !.ClaudePane = cur.ClaudePane]]
                  /\ UNCHANGED reader
                  /\ handOver(name, existing.State,
                              changedEvents(name, existing.State, newState,
                                            info.LastLine))
     ELSE \E workingDir \in paths : \E getErr, setErr \in BOOLEAN :
            LET lock == lockTranscript(name, workingDir, getErr, setErr) IN
            /\ store' = lock.store
            /\ idHist' = [idHist EXCEPT ![name] =
                 [locked |-> lock.id,
                  got |-> GetClaudeSessionID(name, getErr),
                  newest |-> IF files = <<>> THEN ""
                             ELSE files[Len(files)],
                  usageFrom |-> "none"]]
            /\ UNCHANGED <<reader, otherVars>>
            /\ IF workingDir = ""
               THEN /\ sessions' = [sessions EXCEPT ![name] =
                         newSession(name, cur.ClaudePane, cur.content,
                                    workingDir, lock.id, NoUsage)]
                    /\ handOver(name, StateUnknown,
                                discoveredEvents(name, newState))
               ELSE /\ cur' = [cur EXCEPT !.workingDir = workingDir,
                                          !.claudeSessionID = lock.id]
                    /\ mu' = "poll"
                    /\ pc' = IF lock.id # "" THEN "initialUsage"
                             ELSE "create"
                    /\ UNCHANGED <<sessions, eventCh, stopCh, debug,
                                   usagePollTick, tickerC, pollKind,
                                   tmuxSessions, seen, outbox>>
                    /\ UNCHANGED histVars
                    /\ UNCHANGED <<paths, shown, files, tokens, sessAtStart,
                                   tickPolls>>

\* poll(), line 329, seen by a reader: existing.LastContent = content
UpdateContent ==
  /\ pc = "content"
  /\ sessions' = [sessions EXCEPT ![cur.Name].LastContent = cur.content]
  /\ reader' = [reader EXCEPT ![cur.Name] = through(@, sessions'[cur.Name])]
  /\ pc' = "lastLine"
  /\ UNCHANGED <<eventCh, stopCh, debug, usagePollTick, mu, tickerC, pollKind,
                 tmuxSessions, seen, cur, outbox>>
  /\ UNCHANGED histVars
  /\ UNCHANGED <<paths, shown, store, files, tokens, sessAtStart, idHist, tickPolls>>
  /\ UNCHANGED otherVars

\* poll(), line 333, seen by a reader: existing.LastLine = info.LastLine
UpdateLastLine ==
  /\ pc = "lastLine"
  /\ sessions' = [sessions EXCEPT ![cur.Name].LastLine =
                    ParseInfo(cur.content).LastLine]
  /\ reader' = [reader EXCEPT ![cur.Name] = through(@, sessions'[cur.Name])]
  /\ pc' = "pane"
  /\ UNCHANGED <<eventCh, stopCh, debug, usagePollTick, mu, tickerC, pollKind,
                 tmuxSessions, seen, cur, outbox>>
  /\ UNCHANGED histVars
  /\ UNCHANGED <<paths, shown, store, files, tokens, sessAtStart, idHist, tickPolls>>
  /\ UNCHANGED otherVars

\* poll(), lines 335-365, seen by a reader: existing.ClaudePane =
\* claudePane, the last of the assignments, and the end of the visit
UpdatePane ==
  /\ pc = "pane"
  /\ LET name == cur.Name IN
     /\ sessions' = [sessions EXCEPT ![name].ClaudePane = cur.ClaudePane]
     /\ reader' = [reader EXCEPT ![name] = through(@, sessions'[name])]
     /\ handOver(name, cur.oldState,
                 changedEvents(name, cur.oldState, DetectState(cur.content),
                               ParseInfo(cur.content).LastLine))
  /\ UNCHANGED <<store, idHist>>
  /\ UNCHANGED otherVars

\* poll(), lines 291-293: with an id and a working directory,
\* usage.GetSessionByID reads the transcript of the id as the directory
\* holds it now
InitialUsage ==
  /\ pc = "initialUsage"
  /\ \E parseErr \in BOOLEAN :
       LET initialUsage == GetSessionByID(cur.workingDir,
                                          cur.claudeSessionID, parseErr)
       IN /\ cur' = [cur EXCEPT !.initialUsage = initialUsage]
          /\ idHist' = [idHist EXCEPT ![cur.Name].usageFrom =
               IF initialUsage # NoUsage THEN "discovery" ELSE "none"]
  /\ pc' = "create"
  /\ UNCHANGED <<sessions, eventCh, stopCh, debug, usagePollTick, mu, tickerC,
                 pollKind, tmuxSessions, seen, outbox>>
  /\ UNCHANGED histVars
  /\ UNCHANGED <<paths, shown, store, files, tokens, reader, sessAtStart, tickPolls>>
  /\ UNCHANGED otherVars

\* poll(), lines 295-322, for a session with a working directory: its
\* record is put into the map and it is handed to the watcher, which looks
\* into the directory as it is now (lines 312-314); then the end of the
\* visit
Discover ==
  /\ pc = "create"
  /\ LET name == cur.Name IN
     /\ sessions' = [sessions EXCEPT ![name] =
          newSession(name, cur.ClaudePane, cur.content, cur.workingDir,
                     cur.claudeSessionID, cur.initialUsage)]
     /\ watch' = watchSession(name,
                              FindActiveSessionID(cur.workingDir) # "")
     /\ handOver(name, StateUnknown,
                 discoveredEvents(name, DetectState(cur.content)))
  /\ UNCHANGED <<store, reader, idHist>>
  /\ UNCHANGED <<wStat, unwatchVars>>

\* poll(), line 369: m.mu.Lock() before the retirement loop
LoopEnd ==
  /\ pc = "loop"
  /\ outbox = <<>>
  /\ tmuxSessions = <<>>
  /\ mu = "none"
  /\ mu' = "poll"
  /\ pc' = "retire"
  /\ UNCHANGED <<sessions, eventCh, stopCh, debug, usagePollTick, tickerC,
                 pollKind, tmuxSessions, seen, cur, outbox>>
  /\ UNCHANGED histVars
  /\ UNCHANGED extVars
  /\ UNCHANGED otherVars

\* variant of unseen: the seen test is missing
unseenAll(tracked, seenNames) == tracked

\* variant of unseen: ranges over all names instead of the map's keys
unseenAny(tracked, seenNames) == Names \ seenNames

\* the names the retirement loop deletes
unseen(tracked, seenNames) == tracked \ seenNames

\* the event sent for a retired session (lines 374-378)
closedEvents(name) == <<Event(EventSessionClosed, name, StateUnknown, "")>>

\* poll(), lines 370-380: one iteration of the retirement loop, in the
\* map's (arbitrary) iteration order: the watcher is told to forget the
\* name (line 372); the send happens under the lock
Retire ==
  /\ pc = "retire"
  /\ outbox = <<>>
  /\ \E name \in unseen(Tracked, seen) :
       /\ sessions' = [sessions EXCEPT ![name] = NoSession]
       /\ reader' = [reader EXCEPT ![name].attached = FALSE]
       /\ idHist' = [idHist EXCEPT ![name] = NoIdHist]
       /\ outbox' = closedEvents(name)
       /\ cycleEvents' = [cycleEvents EXCEPT ![name] = @ \o closedEvents(name)]
       /\ inflight' = inflight \o closedEvents(name)
       /\ watch' = unwatchSession(name)
       /\ wStat' = unwatched(name)
  /\ UNCHANGED <<eventCh, stopCh, debug, usagePollTick, mu, tickerC, pc,
                 pollKind, tmuxSessions, seen, cur, live, listOK, listed,
                 trackedAtStart, cycleObs, lastEv, lifeOK, lastSent, adjOK,
                 recvOK>>
  /\ UNCHANGED <<paths, shown, store, files, tokens, sessAtStart, tickPolls>>
  /\ UNCHANGED unwatchVars

\* poll(), line 381: m.mu.Unlock() and return
RetireEnd ==
  /\ pc = "retire"
  /\ outbox = <<>>
  /\ unseen(Tracked, seen) = {}
  /\ mu' = "none"
  /\ pc' = "return"
  /\ UNCHANGED <<sessions, eventCh, stopCh, debug, usagePollTick, tickerC,
                 pollKind, tmuxSessions, seen, cur, outbox>>
  /\ UNCHANGED histVars
  /\ UNCHANGED extVars
  /\ UNCHANGED otherVars

\* variant of usageDue: the refresh comes one poll early
usageDueEarly(tick) == tick >= 4

\* pollLoop, line 151: the test made after m.usagePollTick++
usageDue(tick) == tick >= 5

\* pollLoop, lines 141 and 148-154: poll() has returned; after a
\* ticker-driven poll the tick counter advances and every fifth one goes
\* on to updateUsage
PollReturn ==
  /\ pc = "return"
  /\ outbox = <<>>
  /\ listOK' = FALSE
  /\ listed' = {}
  /\ trackedAtStart' = {}
  /\ sessAtStart' = [n \in Names |-> NoSession]
  /\ cycleObs' = [n \in Names |-> NoObs]
  /\ cycleEvents' = [n \in Names |-> <<>>]
  /\ IF pollKind = "initial"
     THEN /\ pc' = "select"
          /\ UNCHANGED <<usagePollTick, tickPolls>>
     ELSE /\ tickPolls' = tickPolls + 1
          /\ IF usageDue(usagePollTick + 1)
             THEN /\ usagePollTick' = 0
                  /\ pc' = "usage"
             ELSE /\ usagePollTick' = usagePollTick + 1
                  /\ pc' = "select"
  /\ UNCHANGED <<sessions, eventCh, stopCh, debug, mu, tickerC, pollKind,
                 tmuxSessions, seen, cur, outbox, live, lastEv, lifeOK,
                 lastSent, adjOK, inflight, recvOK>>
  /\ UNCHANGED <<paths, shown, store, files, tokens, reader, idHist>>
  /\ UNCHANGED otherVars

\* variant of refreshedUsage: the refresh follows the newest transcript
refreshedUsageNewest(info, parseErr) ==
  GetSessionByID(info.workingDir, FindActiveSessionID(info.workingDir),
                 parseErr)

\* updateUsage, line 178: the summary read for one entry of the copy
refreshedUsage(info, parseErr) ==
  GetSessionByID(info.workingDir, info.claudeSessionID, parseErr)

\* the steps of updateUsage
InUpdateUsage == pc \in {"usage", "usageRead", "usageAssign"}

\* updateUsage, lines 160-174: under the read lock, the working directory
\* and the locked id of every tracked session that has a working
\* directory are copied into sessionsToUpdate; with nothing copied the
\* loop of lines 176-188 has no iteration and updateUsage returns
UpdateUsage ==
  /\ pc = "usage"
  /\ mu = "none"
  /\ usageTodo' =
       [n \in {k \in Tracked : sessions[k].WorkingDir # ""} |->
          [workingDir |-> sessions[n].WorkingDir,
           claudeSessionID |-> sessions[n].ClaudeSessionID]]
  /\ tickPolls' = 0
  /\ pc' = IF DOMAIN usageTodo' = {} THEN "select" ELSE "usageRead"
  /\ UNCHANGED <<sessions, eventCh, stopCh, debug, usagePollTick, mu, tickerC,
                 pollKind, tmuxSessions, seen, cur, outbox>>
  /\ UNCHANGED histVars
  /\ UNCHANGED <<paths, shown, store, files, tokens, reader, sessAtStart, idHist>>
  /\ UNCHANGED usageCur
  /\ UNCHANGED <<timerVars, groupVars, streakVars, tuiVars, apmVars,
                 detVars, concVars, fileVars>>

\* updateUsage, lines 176-181: the loop takes an entry of the copy, in
\* the order the iteration over the map gives, and reads its transcript
\* with no lock held; after a read that failed or found no file it goes
\* on to the next entry
UsageRead ==
  /\ pc = "usageRead"
  /\ \E name \in DOMAIN usageTodo : \E parseErr \in BOOLEAN :
       LET sessionUsage == refreshedUsage(usageTodo[name], parseErr)
           rest == [n \in DOMAIN usageTodo \ {name} |-> usageTodo[n]]
       IN /\ usageTodo' = rest
          /\ IF sessionUsage = NoUsage
             THEN /\ usageCur' = NoRefresh
                  /\ pc' = IF DOMAIN rest = {} THEN "select"
                           ELSE "usageRead"
             ELSE /\ usageCur' = [name |-> name, usage |-> sessionUsage]
                  /\ pc' = "usageAssign"
  /\ UNCHANGED <<sessions, eventCh, stopCh, debug, usagePollTick, mu, tickerC,
                 pollKind, tmuxSessions, seen, cur, outbox>>
  /\ UNCHANGED histVars
  /\ UNCHANGED extVars
  /\ UNCHANGED <<timerVars, groupVars, streakVars, tuiVars, apmVars,
                 detVars, concVars, fileVars>>

\* updateUsage, lines 183-187: under the write lock the summary is
\* assigned to the record of the name, if the map still has one
UsageAssign ==
  /\ pc = "usageAssign"
  /\ mu = "none"
  /\ LET name == usageCur.name IN
     IF sessions[name] # NoSession
     THEN /\ sessions' = [sessions EXCEPT ![name].Usage = usageCur.usage]
          /\ idHist' = [idHist EXCEPT ![name].usageFrom = "refresh"]
          /\ reader' = [reader EXCEPT ![name] = through(@, sessions'[name])]
     ELSE UNCHANGED <<sessions, idHist, reader>>
  /\ usageCur' = NoRefresh
  /\ pc' = IF DOMAIN usageTodo = {} THEN "select" ELSE "usageRead"
  /\ UNCHANGED <<eventCh, stopCh, debug, usagePollTick, mu, tickerC,
                 pollKind, tmuxSessions, seen, cur, outbox>>
  /\ UNCHANGED histVars
  /\ UNCHANGED <<paths, shown, store, files, tokens, sessAtStart, tickPolls>>
  /\ UNCHANGED usageTodo
  /\ UNCHANGED <<timerVars, groupVars, streakVars, tuiVars, apmVars,
                 detVars, concVars, fileVars>>

\* Sessions(): under the read lock, the pointers of all records in the
\* map (the order of the slice is not modelled)
Sessions ==
  /\ pc # "new"
  /\ mu = "none"
  /\ reader' = [n \in Names |->
       IF n \in Tracked
       THEN [held |-> TRUE, via |-> "Sessions", taken |-> sessions[n],
             obj |-> sessions[n], attached |-> TRUE]
       ELSE NoRef]
  /\ UNCHANGED <<sessions, eventCh, stopCh, debug, usagePollTick, mu, tickerC,
                 pc, pollKind, tmuxSessions, seen, cur, outbox>>
  /\ UNCHANGED histVars
  /\ UNCHANGED <<paths, shown, store, files, tokens, sessAtStart, idHist, tickPolls>>
  /\ UNCHANGED otherVars

\* GetSession(name): under the read lock, the pointer of one record
GetSession ==
  /\ pc # "new"
  /\ mu = "none"
  /\ \E name \in Tracked :
       reader' = [n \in Names |->
         IF n = name
         THEN [held |-> TRUE, via |-> "GetSession", taken |-> sessions[n],
               obj |-> sessions[n], attached |-> TRUE]
         ELSE NoRef]
  /\ UNCHANGED <<sessions, eventCh, stopCh, debug, usagePollTick, mu, tickerC,
                 pc, pollKind, tmuxSessions, seen, cur, outbox>>
  /\ UNCHANGED histVars
  /\ UNCHANGED <<paths, shown, store, files, tokens, sessAtStart, idHist, tickPolls>>
  /\ UNCHANGED otherVars

\* Claude appends an assistant record to the transcript <id>.jsonl of the
\* project directory, creating the file if need be; the file becomes the
\* most recently modified one
WriteTranscript ==
  /\ \E id \in TranscriptIds :
       /\ tokens[id] < MaxTokens
       /\ tokens' = [tokens EXCEPT ![id] = @ + 1]
       /\ files' = SelectSeq(files, LAMBDA f : f # id) \o <<id>>
  /\ UNCHANGED <<sessions, eventCh, stopCh, debug, usagePollTick, mu, tickerC,
                 pc, pollKind, tmuxSessions, seen, cur, outbox>>
  /\ UNCHANGED histVars
  /\ UNCHANGED <<paths, shown, store, reader, sessAtStart, idHist, tickPolls>>
  /\ UNCHANGED otherVars

\* variant of sendBlocks: a select with a default case around every send
sendNeverBlocks(ch, e) == FALSE

\* a channel send `m.eventCh <- e` waits while the buffer is full
sendBlocks(ch, e) == Len(ch) >= EventChCap

\* variant of enqueue: the buffer hands out the newest event first
enqueueFront(ch, e) == IF Len(ch) < EventChCap THEN <<e>> \o ch ELSE ch

\* the buffer after a send that did not wait: the event goes behind the
\* ones the buffer holds; a send that finds no room without waiting loses
\* the event
enqueue(ch, e) == IF Len(ch) < EventChCap THEN Append(ch, e) ELSE ch

\* the shape of one session's lifetime on the channel: discovered opens
\* it, closed ends it, the other events lie in between
LegalAfter(last, type) ==
  IF type = EventSessionDiscovered
  THEN last \in {"none", EventSessionClosed}
  ELSE last \in {EventSessionDiscovered, EventStateChanged,
                 EventTaskCompleted, EventUrgent}

\* the goroutine's pending send completes
Send ==
  /\ outbox # <<>>
  /\ LET e == Head(outbox) IN
     /\ ~sendBlocks(eventCh, e)
     /\ eventCh' = enqueue(eventCh, e)
     /\ lastSent' = <<e.Type, e.Session>>
     /\ adjOK' = (adjOK /\ (e.Type = EventTaskCompleted =>
                               lastSent = <<EventStateChanged, e.Session>>))
     /\ IF e.Type = EventDebug
        THEN UNCHANGED <<lastEv, lifeOK>>
        ELSE /\ lastEv' = [lastEv EXCEPT ![e.Session] = e.Type]
             /\ lifeOK' = (lifeOK /\ LegalAfter(lastEv[e.Session], e.Type))
  /\ outbox' = Tail(outbox)
  /\ UNCHANGED <<sessions, stopCh, debug, usagePollTick, mu, tickerC, pc,
                 pollKind, tmuxSessions, seen, cur, live, listOK, listed,
                 trackedAtStart, cycleObs, cycleEvents, inflight, recvOK>>
  /\ UNCHANGED extVars
  /\ UNCHANGED otherVars

\* event := <-m.monitor.Events(): what a reception does to the monitor's
\* channel
recvEvent ==
  /\ eventCh # <<>>
  /\ LET e == Head(eventCh) IN
     /\ IF e.Type = EventDebug
        THEN UNCHANGED <<inflight, recvOK>>
        ELSE /\ recvOK' = (recvOK /\ inflight # <<>> /\ Head(inflight) = e)
             /\ inflight' = IF inflight = <<>> THEN <<>> ELSE Tail(inflight)
  /\ eventCh' = Tail(eventCh)
  /\ UNCHANGED <<sessions, stopCh, debug, usagePollTick, mu, tickerC, pc,
                 pollKind, tmuxSessions, seen, cur, outbox, live, listOK,
                 listed, trackedAtStart, cycleObs, cycleEvents, lastEv,
                 lifeOK, lastSent, adjOK>>
  /\ UNCHANGED <<paths, shown, files, tokens, reader, sessAtStart, idHist,
                 tickPolls>>

\* monitorCmd (tui/model.go lines 181-189)
receive == recvEvent /\ UNCHANGED store

\* a consumer takes an event from the channel Events() returns
\* (monitor.go lines 98-100)
Recv == receive /\ UNCHANGED otherVars

\* the steps of the pollLoop goroutine
pollLoop ==
  \/ SelectStop
  \/ SelectTick
  \/ PollBegin
  \/ Capture
  \/ Update
  \/ UpdateContent
  \/ UpdateLastLine
  \/ UpdatePane
  \/ InitialUsage
  \/ Discover
  \/ LoopEnd
  \/ Retire
  \/ RetireEnd
  \/ PollReturn
  \/ UpdateUsage
  \/ UsageRead
  \/ UsageAssign
  \/ Send

\* the steps of a run in which tmux reports no session path: no session
\* has a working directory, the copy updateUsage makes is empty and its
\* loop over the copy (lines 176-187) has no iteration
Next ==
  \/ Start
  \/ Stop
  \/ Tick
  \/ SelectStop
  \/ SelectTick
  \/ PollBegin
  \/ Capture
  \/ Update
  \/ LoopEnd
  \/ Retire
  \/ RetireEnd
  \/ PollReturn
  \/ UpdateUsage
  \/ Send
  \/ Recv

\* the steps of a run in which a goroutine other than pollLoop reads the
\* tracked sessions
NextReader ==
  \/ Next
  \/ UpdateContent
  \/ UpdateLastLine
  \/ UpdatePane
  \/ Sessions
  \/ GetSession

\* a Monitor without a store, in a run where tmux reports no session path
NoUsageEnv == store = NilStore /\ paths = {""}

\* such a run in which the panes of "a" may show anything
RichEnv == NoUsageEnv /\ shown = RichScreens

\* such a run in which the panes of "a" show a shell or an idle Claude
PlainEnv == NoUsageEnv /\ shown = PlainScreens

\* NewMonitor in a run without CCMANAGER_DEBUG, tmux may hold both names,
\* one showing a shell or an idle Claude and the other a shell or a
\* thinking Claude
InitPlain ==
  Init /\ debug = FALSE /\ live = Names /\ PlainEnv /\ detIn = <<>>

\* NewMonitor in a run with CCMANAGER_DEBUG=1, tmux may hold one name
InitDebug ==
  Init /\ debug = TRUE /\ live = {"a"} /\ RichEnv /\ detIn = <<>>

\* NewMonitor in a run without CCMANAGER_DEBUG, tmux may hold one name
InitOne ==
  Init /\ debug = FALSE /\ live = {"a"} /\ RichEnv /\ detIn = <<>>

\* NewMonitor in a run without CCMANAGER_DEBUG, tmux may hold one name,
\* whose panes show an idle or a thinking Claude
InitWork ==
  /\ Init
  /\ debug = FALSE
  /\ live = {"a"}
  /\ NoUsageEnv
  /\ shown = WorkScreens
  /\ detIn = <<>>

\* NewMonitor in a run without CCMANAGER_DEBUG, tmux may hold the name
\* whose panes show a shell or a thinking Claude
InitReader ==
  Init /\ debug = FALSE /\ live = {"b"} /\ RichEnv /\ detIn = <<>>

\* NewMonitor without a store, in a run without CCMANAGER_DEBUG where
\* tmux may hold one name, with or without a session path
InitUsage ==
  /\ Init
  /\ debug = FALSE
  /\ live = {"b"}
  /\ paths = WorkingDirs
  /\ shown = RichScreens
  /\ store = NilStore
  /\ detIn = <<>>

\* NewMonitor with a store, in such a run
InitStore ==
  /\ Init
  /\ debug = FALSE
  /\ live = {"b"}
  /\ paths = WorkingDirs
  /\ shown = RichScreens
  /\ store.present
  /\ store.id["a"] = ""
  /\ detIn = <<>>

\* the steps of a run in which Claude writes transcripts and Stop is not
\* called
NextUsage ==
  \/ Start
  \/ Tick
  \/ SelectTick
  \/ PollBegin
  \/ Capture
  \/ Update
  \/ InitialUsage
  \/ Discover
  \/ LoopEnd
  \/ Retire
  \/ RetireEnd
  \/ PollReturn
  \/ UpdateUsage
  \/ UsageRead
  \/ UsageAssign
  \/ Send
  \/ Recv
  \/ WriteTranscript

Spec == InitPlain /\ [][Next]_vars

SpecDebug == InitDebug /\ [][Next]_vars

SpecOne == InitOne /\ [][Next]_vars

SpecReader == InitReader /\ [][NextReader]_vars

SpecUsage == InitUsage /\ [][NextUsage]_vars

TypeOK ==
  /\ Len(eventCh) <= EventChCap
  /\ usagePollTick \in 0..4
  /\ mu \in {"none", "poll"}

\* with one session and without debug logging; the goroutine keeps taking
\* steps while it can, the select takes the stop case if it stays ready
\* (Go chooses among ready cases at random), and nothing obliges the
\* consumer to receive
FairSpec ==
  /\ InitOne
  /\ [][Next]_vars
  /\ WF_vars(pollLoop)
  /\ SF_vars(SelectStop)

\* -------------------------------------------------------- interval timer
\* Model of the PomodoroTimer of internal/game.  Durations are whole
\* minutes; instead of the wall clock and lastTick the model keeps their
\* difference, sinceTick, which is what Tick subtracts.  The operations
\* are taken one at a time, as the one goroutine of the UI calls them.

RunningStates == {PomodoroWork, PomodoroShortBreak, PomodoroLongBreak}

\* PomodoroState.String
String(state) ==
  CASE state = PomodoroPaused -> "paused"
    [] state = PomodoroWork -> "work"
    [] state = PomodoroShortBreak -> "short_break"
    [] state = PomodoroLongBreak -> "long_break"
    [] OTHER -> "stopped"

\* the state names SetState is given: the ones String produces and one
\* that is none of them
StateStrings ==
  {String(st) : st \in PomodoroStopped..PomodoroLongBreak} \cup {""}

\* variant of start: a running or paused timer is restarted too
startAlways(p) ==
  [p EXCEPT !.state = PomodoroWork, !.remaining = WorkMinutes,
            !.sinceTick = 0]

\* Start (lines 159-168)
start(p) ==
  IF p.state = PomodoroStopped
  THEN [p EXCEPT !.state = PomodoroWork, !.remaining = WorkMinutes,
                 !.sinceTick = 0]
  ELSE p

\* Stop (lines 171-177)
stop(p) == [p EXCEPT !.state = PomodoroStopped, !.remaining = 0]

\* Pause (lines 180-187)
pause(p) ==
  IF p.state # PomodoroStopped /\ p.state # PomodoroPaused
  THEN [p EXCEPT !.pausedState = p.state, !.state = PomodoroPaused]
  ELSE p

\* variant of resume: a resumed timer is always back at work
resumeToWork(p) ==
  IF p.state = PomodoroPaused
  THEN [p EXCEPT !.state = PomodoroWork, !.sinceTick = 0]
  ELSE p

\* Resume (lines 190-197)
resume(p) ==
  IF p.state = PomodoroPaused
  THEN [p EXCEPT !.state = p.pausedState, !.sinceTick = 0]
  ELSE p

\* Toggle, lines 205-212: Start, Resume or Pause is called for the state
\* that was read
toggleCall(p, state) ==
  CASE state = PomodoroStopped -> start(p)
    [] state = PomodoroPaused -> resume(p)
    [] OTHER -> pause(p)

\* Toggle (lines 200-213) when nothing else is called on the timer between
\* its read of the state and the call it makes
toggle(p) == toggleCall(p, p.state)

\* variant of transition: the completed count is not reset at a long break
transitionNoReset(p, hasCallback) ==
  IF p.state = PomodoroWork
  THEN [timer |->
          IF p.completed + 1 >= SessionsBeforeLongBreak
          THEN [p EXCEPT !.state = PomodoroLongBreak,
                         !.remaining = LongBreakMinutes,
                         !.completed = p.completed + 1]
          ELSE [p EXCEPT !.state = PomodoroShortBreak,
                         !.remaining = ShortBreakMinutes,
                         !.completed = p.completed + 1],
        calls |-> IF hasCallback THEN 1 ELSE 0]
  ELSE IF p.state \in {PomodoroShortBreak, PomodoroLongBreak}
  THEN [timer |-> [p EXCEPT !.state = PomodoroWork,
                            !.remaining = WorkMinutes],
        calls |-> 0]
  ELSE [timer |-> p, calls |-> 0]

\* variant of transition: the callback is called on every transition
transitionAlwaysCalls(p, hasCallback) ==
  IF p.state = PomodoroWork
  THEN [timer |->
          IF p.completed + 1 >= SessionsBeforeLongBreak
          THEN [p EXCEPT !.state = PomodoroLongBreak,
                         !.remaining = LongBreakMinutes,
                         !.completed = 0]
          ELSE [p EXCEPT !.state = PomodoroShortBreak,
                         !.remaining = ShortBreakMinutes,
                         !.completed = p.completed + 1],
        calls |-> IF hasCallback THEN 1 ELSE 0]
  ELSE IF p.state \in {PomodoroShortBreak, PomodoroLongBreak}
  THEN [timer |-> [p EXCEPT !.state = PomodoroWork,
                            !.remaining = WorkMinutes],
        calls |-> IF hasCallback THEN 1 ELSE 0]
  ELSE [timer |-> p, calls |-> 0]

\* transition (lines 239-258): the timer after it and the number of calls
\* of the completion callback
transition(p, hasCallback) ==
  IF p.state = PomodoroWork
  THEN [timer |->
          IF p.completed + 1 >= SessionsBeforeLongBreak
          THEN [p EXCEPT !.state = PomodoroLongBreak,
                         !.remaining = LongBreakMinutes,
                         !.completed = 0]
          ELSE [p EXCEPT !.state = PomodoroShortBreak,
                         !.remaining = ShortBreakMinutes,
                         !.completed = p.completed + 1],
        calls |-> IF hasCallback THEN 1 ELSE 0]
  ELSE IF p.state \in {PomodoroShortBreak, PomodoroLongBreak}
  THEN [timer |-> [p EXCEPT !.state = PomodoroWork,
                            !.remaining = WorkMinutes],
        calls |-> 0]
  ELSE [timer |-> p, calls |-> 0]

\* variant of tick: the time beyond the remaining time is taken off the
\* next phase
tickCarriesExcess(p, hasCallback) ==
  IF p.state = PomodoroStopped \/ p.state = PomodoroPaused
  THEN [timer |-> p, calls |-> 0]
  ELSE LET elapsed == p.sinceTick
           q == [p EXCEPT !.sinceTick = 0]
           r == transition([q EXCEPT !.remaining = 0], hasCallback)
           excess == elapsed - q.remaining
       IN IF q.remaining > elapsed
          THEN [timer |-> [q EXCEPT !.remaining = q.remaining - elapsed],
                calls |-> 0]
          ELSE [r EXCEPT !.timer.remaining =
                  IF @ > excess THEN @ - excess ELSE 0]

\* Tick(now) (lines 216-236) with elapsed = now - lastTick
tick(p, hasCallback) ==
  IF p.state = PomodoroStopped \/ p.state = PomodoroPaused
  THEN [timer |-> p, calls |-> 0]
  ELSE LET elapsed == p.sinceTick
           q == [p EXCEPT !.sinceTick = 0]
       IN IF q.remaining > elapsed
          THEN [timer |-> [q EXCEPT !.remaining = q.remaining - elapsed],
                calls |-> 0]
          ELSE transition([q EXCEPT !.remaining = 0], hasCallback)

\* variant of setState: the last-tick reference is left as it was
setStateKeepsLastTick(p, stateStr, remaining) ==
  [p EXCEPT
     !.state = CASE stateStr = "paused" -> PomodoroPaused
                 [] stateStr = "work" -> PomodoroWork
                 [] stateStr = "short_break" -> PomodoroShortBreak
                 [] stateStr = "long_break" -> PomodoroLongBreak
                 [] OTHER -> PomodoroStopped,
     !.remaining = remaining]

\* SetState (lines 301-319)
setState(p, stateStr, remaining) ==
  [p EXCEPT
     !.state = CASE stateStr = "paused" -> PomodoroPaused
                 [] stateStr = "work" -> PomodoroWork
                 [] stateStr = "short_break" -> PomodoroShortBreak
                 [] stateStr = "long_break" -> PomodoroLongBreak
                 [] OTHER -> PomodoroStopped,
     !.remaining = remaining,
     !.sinceTick = 0]

\* an operation on the timer has returned: the timer after it, and the
\* history
didTimer(op, after, calls, arg) ==
  /\ pomodoro' = after
  /\ pLast' = [op |-> op, before |-> pomodoro, calls |-> calls,
               from |-> pausedFrom, ref |-> sinceRef, arg |-> arg,
               afterLoad |-> (pLast.op = "SetState")]
  /\ sinceRef' =
       IF \/ op = "SetState"
          \/ op \in {"Resume", "Toggle"} /\ pomodoro.state = PomodoroPaused
          \/ op \in {"Start", "Toggle"} /\ pomodoro.state = PomodoroStopped
          \/ op = "Tick" /\ pomodoro.state \in RunningStates
       THEN 0
       ELSE sinceRef
  /\ pausedFrom' =
       IF after.state # PomodoroPaused
       THEN [known |-> FALSE, state |-> PomodoroStopped]
       ELSE IF pomodoro.state = PomodoroPaused
       THEN (IF op = "SetState"
             THEN [known |-> FALSE, state |-> PomodoroStopped]
             ELSE pausedFrom)
       ELSE IF op \in {"Pause", "Toggle"}
       THEN [known |-> TRUE, state |-> pomodoro.state]
       ELSE [known |-> FALSE, state |-> PomodoroStopped]

\* an operation called by the goroutine of the interface, which calls
\* them one at a time: inside Toggle, between the read of the state and
\* the call, it makes no other call
didArg(op, after, calls, arg) ==
  /\ toggleRead[1].reading <=> op = "Toggle"
  /\ didTimer(op, after, calls, arg)
  /\ toggleRead' = [toggleRead EXCEPT ![1] = NoRead]
  /\ UNCHANGED <<lin, concCalls>>
  /\ UNCHANGED notConcVars

did(op, after, calls) == didArg(op, after, calls, NoArg)

PomodoroStart == did("Start", start(pomodoro), 0) /\ UNCHANGED onComplete

PomodoroStop == did("Stop", stop(pomodoro), 0) /\ UNCHANGED onComplete

PomodoroPause == did("Pause", pause(pomodoro), 0) /\ UNCHANGED onComplete

PomodoroResume == did("Resume", resume(pomodoro), 0) /\ UNCHANGED onComplete

\* Toggle, lines 201-203: the state is read under the lock, and the lock
\* is released
PomodoroToggleRead ==
  /\ ~toggleRead[1].reading
  /\ toggleRead' = [toggleRead EXCEPT
                      ![1] = [reading |-> TRUE, state |-> pomodoro.state]]
  /\ UNCHANGED <<timerVars, lin, concCalls>>
  /\ UNCHANGED notConcVars

\* Toggle, lines 205-212: the call for the state that was read; Toggle
\* returns
PomodoroToggle ==
  /\ did("Toggle", toggleCall(pomodoro, toggleRead[1].state), 0)
  /\ UNCHANGED onComplete

\* Tick(now) (lines 216-236)
PomodoroTick ==
  /\ did("Tick", tick(pomodoro, onComplete).timer,
         tick(pomodoro, onComplete).calls)
  /\ UNCHANGED onComplete

\* Engine.LoadState calls SetState with the persisted state name and
\* remaining time
PomodoroSetState ==
  /\ \E stateStr \in StateStrings :
     \E remaining \in 0..WorkMinutes :
       didArg("SetState", setState(pomodoro, stateStr, remaining), 0,
              [stateStr |-> stateStr, remaining |-> remaining])
  /\ UNCHANGED onComplete

\* OnComplete(fn) (lines 322-326), as tui.New calls it
PomodoroOnComplete ==
  /\ onComplete' = TRUE
  /\ did("OnComplete", pomodoro, 0)

\* a minute passes
TimePasses ==
  /\ pomodoro.sinceTick < MaxElapsed
  /\ pomodoro' = [pomodoro EXCEPT !.sinceTick = @ + 1]
  /\ sinceRef' = sinceRef + 1
  /\ UNCHANGED <<onComplete, pLast, pausedFrom>>
  /\ UNCHANGED notTimerVars

NextTimer ==
  \/ PomodoroStart
  \/ PomodoroStop
  \/ PomodoroPause
  \/ PomodoroResume
  \/ PomodoroToggleRead
  \/ PomodoroToggle
  \/ PomodoroTick
  \/ PomodoroSetState
  \/ PomodoroOnComplete
  \/ TimePasses

\* a new timer; the monitor is not started
InitTimer ==
  Init /\ debug = FALSE /\ live = {} /\ RichEnv /\ detIn = <<>>

SpecTimer == InitTimer /\ [][NextTimer]_vars

\* ------------------------------------------- concurrent calls on the timer
\* Stop, Tick and SetState hold the timer's lock for their whole body;
\* Toggle releases it between reading the state and calling Start, Resume
\* or Pause.

\* the goroutines inside Toggle
Pending == {g \in Goroutines : toggleRead[g].reading}

\* the sequential orders seen so far, each also extended by the running
\* Toggle calls it has not placed yet, n times
RECURSIVE Placed(_, _, _)
Placed(L, P, n) ==
  IF n = 0
  THEN L
  ELSE Placed(L \cup {[t |-> toggle(l[1].t), done |-> l[1].done \cup {l[2]}] :
                        l \in {k \in L \X P : k[2] \notin k[1].done}},
              P, n - 1)

\* an operation that holds the lock throughout is placed where it runs
Atomic(op(_)) ==
  /\ concCalls < MaxConcCalls
  /\ concCalls' = concCalls + 1
  /\ pomodoro' = op(pomodoro)
  /\ lin' = Placed({[t |-> op(l.t), done |-> l.done] : l \in lin},
                   Pending, Cardinality(Goroutines))
  /\ UNCHANGED <<toggleRead, pLast, pausedFrom, sinceRef>>
  /\ UNCHANGED notConcVars

\* Toggle, lines 201-203: the state is read under the lock
ToggleRead(g) ==
  /\ ~toggleRead[g].reading
  /\ concCalls < MaxConcCalls
  /\ concCalls' = concCalls + 1
  /\ toggleRead' = [toggleRead EXCEPT
                      ![g] = [reading |-> TRUE, state |-> pomodoro.state]]
  /\ lin' = Placed(lin, Pending \cup {g}, Cardinality(Goroutines))
  /\ UNCHANGED timerVars
  /\ UNCHANGED notConcVars

\* Toggle, lines 205-212: Start, Resume or Pause is called for the state
\* that was read, and Toggle returns
ToggleCall(g) ==
  /\ toggleRead[g].reading
  /\ pomodoro' = toggleCall(pomodoro, toggleRead[g].state)
  /\ toggleRead' = [toggleRead EXCEPT ![g] = NoRead]
  /\ lin' = {[t |-> l.t, done |-> l.done \ {g}] :
               l \in {k \in lin : g \in k.done}}
  /\ UNCHANGED <<concCalls, onComplete, pLast, pausedFrom, sinceRef>>
  /\ UNCHANGED notConcVars

tickTimer(p) == tick(p, FALSE).timer

ConcStop == Atomic(stop) /\ UNCHANGED onComplete

ConcTick == Atomic(tickTimer) /\ UNCHANGED onComplete

ConcSetState ==
  /\ \E stateStr \in StateStrings :
     \E remaining \in 0..WorkMinutes :
       LET load(p) == setState(p, stateStr, remaining)
       IN Atomic(load)
  /\ UNCHANGED onComplete

NextToggle ==
  \/ \E g \in Goroutines : ToggleRead(g)
  \/ \E g \in Goroutines : ToggleCall(g)
  \/ ConcStop
  \/ ConcTick
  \/ ConcSetState

SpecToggle == InitTimer /\ [][NextToggle]_vars

\* ---------------------------------------------------------- control groups
\* The group numbers the hotkeys address, and the last of them
\* (FirstFreeGroup's loop bound, part_003 line 103)
LastGroup == 10
GroupNums == 1..MaxGroupNum
AllGroups == 1..LastGroup

\* c.groups[groupNum]: the zero value "" for a key the map does not hold
Get(c, groupNum) ==
  IF groupNum \in DOMAIN c.groups THEN c.groups[groupNum] ELSE ""

\* m[k] = v and delete(m, k) on a Go map
put(m, k, v) == [x \in DOMAIN m \cup {k} |-> IF x = k THEN v ELSE m[x]]
delete(m, k) == [x \in DOMAIN m \ {k} |-> m[x]]

AssignIfFree(c, groupNum, session) ==
  IF Get(c, groupNum) = ""
  THEN [c EXCEPT !.groups = put(c.groups, groupNum, session)]
  ELSE c

\* Assign (lines 28-32)
Assign(c, groupNum, session) ==
  [c EXCEPT !.groups = put(c.groups, groupNum, session)]

\* Remove (lines 35-42)
Remove(c, groupNum, session) ==
  IF Get(c, groupNum) = session
  THEN [c EXCEPT !.groups = delete(c.groups, groupNum)]
  ELSE c

RemoveSessionLowest(c, session) ==
  LET holding == {h \in DOMAIN c.groups : c.groups[h] = session}
  IN  IF holding = {} THEN c
      ELSE [c EXCEPT !.groups =
              delete(c.groups,
                     CHOOSE h \in holding : \A k \in holding : h <= k)]

\* RemoveSession (lines 45-54)
RemoveSession(c, session) ==
  [c EXCEPT !.groups =
     [g \in {h \in DOMAIN c.groups : c.groups[h] # session} |->
        c.groups[g]]]

CycleTapIfAssigned(c, groupNum, now) ==
  [c |-> IF Get(c, groupNum) = "" THEN c
         ELSE [c EXCEPT !.lastTap = put(c.lastTap, groupNum, now)],
   session |-> Get(c, groupNum),
   doubleTap |-> /\ groupNum \in DOMAIN c.lastTap
                 /\ now - c.lastTap[groupNum] < TapThreshold]

\* Cycle (lines 64-79) called when the clock reads now: the registry after
\* it and its two results
Cycle(c, groupNum, now) ==
  [c |-> [c EXCEPT !.lastTap = put(c.lastTap, groupNum, now)],
   session |-> Get(c, groupNum),
   doubleTap |-> /\ groupNum \in DOMAIN c.lastTap
                 /\ now - c.lastTap[groupNum] < TapThreshold]

\* FirstFreeGroup (lines 99-109): the loop from i on
RECURSIVE firstFreeFrom(_, _)
firstFreeFrom(c, i) ==
  IF i > LastGroup THEN 0
  ELSE IF Get(c, i) = "" THEN i
  ELSE firstFreeFrom(c, i + 1)

FirstFreeGroupSkipFirst(c) == firstFreeFrom(c, 2)

FirstFreeGroup(c) == firstFreeFrom(c, 1)

\* one call on the control groups
cgDid(op, groupNum, session, after, ret, free, doubleTap) ==
  /\ controlGrps' = after
  /\ cgLast' = [op |-> op, groupNum |-> groupNum, session |-> session,
                before |-> controlGrps.groups, ret |-> ret, free |-> free,
                doubleTap |-> doubleTap,
                recent |-> (op = "Cycle" /\ \E p \in cgRecent :
                                              p[1] = groupNum)]
  /\ cgRecent' = IF op = "Cycle"
                 THEN cgRecent \cup {<<groupNum, tapClock>>}
                 ELSE cgRecent
  /\ UNCHANGED tapClock
  /\ UNCHANGED notGroupVars

GroupsAssign(groupNum, session) ==
  cgDid("Assign", groupNum, session,
        Assign(controlGrps, groupNum, session), "", 0, FALSE)

GroupsRemove(groupNum, session) ==
  cgDid("Remove", groupNum, session,
        Remove(controlGrps, groupNum, session), "", 0, FALSE)

GroupsRemoveSession(session) ==
  cgDid("RemoveSession", 0, session,
        RemoveSession(controlGrps, session), "", 0, FALSE)

GroupsCycle(groupNum) ==
  LET r == Cycle(controlGrps, groupNum, tapClock)
  IN  cgDid("Cycle", groupNum, "", r.c, r.session, 0, r.doubleTap)

GroupsFirstFreeGroup ==
  cgDid("FirstFreeGroup", 0, "", controlGrps, "",
        FirstFreeGroup(controlGrps), FALSE)

\* the clock advances by one unit
TapTimePasses ==
  /\ tapClock < MaxTapClock
  /\ tapClock' = tapClock + 1
  /\ cgRecent' = {p \in cgRecent : tapClock' - p[2] < TapThreshold}
  /\ UNCHANGED <<controlGrps, cgLast>>
  /\ UNCHANGED notGroupVars

\* the calls on groups 1..MaxGroupNum, at one reading of the clock
NextGroups ==
  \/ \E groupNum \in GroupNums, session \in Names :
       GroupsAssign(groupNum, session)
  \/ \E groupNum \in GroupNums, session \in Names :
       GroupsRemove(groupNum, session)
  \/ \E session \in Names : GroupsRemoveSession(session)
  \/ \E groupNum \in GroupNums : GroupsCycle(groupNum)
  \/ GroupsFirstFreeGroup

\* taps on groups 1..MaxGroupNum as time passes, with one session name to
\* assign
NextTap ==
  \/ \E groupNum \in GroupNums : GroupsAssign(groupNum, "a")
  \/ \E groupNum \in GroupNums : GroupsCycle(groupNum)
  \/ TapTimePasses

\* the calls that change or scan the assignments, on all ten groups and
\* with one session name
NextFree ==
  \/ \E groupNum \in AllGroups : GroupsAssign(groupNum, "a")
  \/ \E groupNum \in AllGroups : GroupsRemove(groupNum, "a")
  \/ GroupsRemoveSession("a")
  \/ GroupsFirstFreeGroup

\* a new engine (NewEngine, engine.go lines 84-90: new control groups, a
\* new streak tracker, a new action-rate tracker); the monitor is not
\* started
InitGame ==
  Init /\ debug = FALSE /\ live = {} /\ RichEnv /\ detIn = <<>>

SpecGroups == InitGame /\ [][NextGroups]_vars

SpecTap == InitGame /\ [][NextTap]_vars

SpecFree == InitGame /\ [][NextFree]_vars

\* ---------------------------------------------------------- streak tracker
SetSessionActiveOnly(s, name, active) ==
  IF active
  THEN [s EXCEPT !.activeSessions = put(s.activeSessions, name, TRUE)]
  ELSE s

\* SetSessionActive (part_002 lines 20-28)
SetSessionActive(s, name, active) ==
  IF active
  THEN [s EXCEPT !.activeSessions = put(s.activeSessions, name, TRUE)]
  ELSE [s EXCEPT !.activeSessions = delete(s.activeSessions, name)]

\* len(s.activeSessions)
len(m) == Cardinality(DOMAIN m)

MultiplierUncapped(s) ==
  LET count == len(s.activeSessions)
  IN  IF count <= 1 THEN 1 ELSE count

\* Multiplier (lines 30-43)
Multiplier(s) ==
  LET count == len(s.activeSessions)
  IN  IF count <= 1 THEN 1
      ELSE IF count > s.multiplierCap THEN s.multiplierCap
      ELSE count

\* Count (lines 45-49)
Count(s) == len(s.activeSessions)

StreakSetSessionActive(name, active) ==
  /\ streak' = SetSessionActive(streak, name, active)
  /\ streakCalls' = [streakCalls EXCEPT
                       ![name] = IF active THEN "active" ELSE "inactive"]
  /\ streakOut' = [op |-> "SetSessionActive", count |-> 0, mult |-> 0]
  /\ UNCHANGED notStreakVars

StreakMultiplier ==
  /\ streakOut' = [op |-> "Multiplier", count |-> 0,
                   mult |-> Multiplier(streak)]
  /\ UNCHANGED <<streak, streakCalls>>
  /\ UNCHANGED notStreakVars

StreakCount ==
  /\ streakOut' = [op |-> "Count", count |-> Count(streak), mult |-> 0]
  /\ UNCHANGED <<streak, streakCalls>>
  /\ UNCHANGED notStreakVars

NextStreak ==
  \/ \E name \in StreakNames, active \in BOOLEAN :
       StreakSetSessionActive(name, active)
  \/ StreakMultiplier
  \/ StreakCount

SpecStreak == InitGame /\ [][NextStreak]_vars

\* ------------------------------------------------------ action-rate tracker
\* time.Second and time.Minute, in seconds
Second == 1
Minute == 60

\* The readings of the clock at which the tracker is called
Instants == {0, 1, 2, 30, 59, 60, 61, 62, 63}

recalculateKeepCutoff(a, now) ==
  LET cutoff == now - APMWindowSeconds
      newActions == SelectSeq(a.actions, LAMBDA t : t >= cutoff)
      count == Len(newActions)
      since == now - newActions[1]
      elapsed == IF since < Second THEN Second ELSE since
  IN  IF count = 0
      THEN [actions |-> newActions, current |-> 0]
      ELSE [actions |-> newActions,
            current |-> IF elapsed < Minute
                        THEN (count * Minute) \div elapsed
                        ELSE count]

\* recalculate (lines 48-78): prune, then the rate from the first
\* remaining action; the quotient of the two float64 values is truncated
\* by int()
recalculate(a, now) ==
  LET cutoff == now - APMWindowSeconds
      newActions == SelectSeq(a.actions, LAMBDA t : t > cutoff)
      count == Len(newActions)
      since == now - newActions[1]
      elapsed == IF since < Second THEN Second ELSE since
  IN  IF count = 0
      THEN [actions |-> newActions, current |-> 0]
      ELSE [actions |-> newActions,
            current |-> IF elapsed < Minute
                        THEN (count * Minute) \div elapsed
                        ELSE count]

\* RecordAction (lines 25-31)
RecordAction(a, t) ==
  recalculate([a EXCEPT !.actions = Append(a.actions, t)], t)

\* Tick (lines 34-39)
APMTick(a, now) == recalculate(a, now)

\* Engine.RecordAction (engine.go lines 133-144) reads the clock under the
\* engine's lock and records the action
ApmRecordAction ==
  /\ Len(apmAll) < MaxActions
  /\ apm' = RecordAction(apm, apmClock)
  /\ apmAll' = Append(apmAll, apmClock)
  /\ apmLast' = [op |-> "RecordAction", now |-> apmClock]
  /\ UNCHANGED apmClock
  /\ UNCHANGED notApmVars

\* Engine.RecordAction called n times in one Update of the interface
RECURSIVE recordActions(_, _, _)
recordActions(a, now, n) ==
  IF n = 0 THEN a ELSE recordActions(RecordAction(a, now), now, n - 1)

EngineRecordActions(n) ==
  /\ Len(apmAll) + n <= MaxActions
  /\ apm' = recordActions(apm, apmClock, n)
  /\ apmAll' = apmAll \o [i \in 1..n |-> apmClock]
  /\ apmLast' = [op |-> "RecordAction", now |-> apmClock]
  /\ UNCHANGED apmClock

\* Engine.Tick (engine.go lines 229-236): Tick on the tracker, then Tick
\* on the timer
EngineTick ==
  /\ apm' = APMTick(apm, apmClock)
  /\ apmLast' = [op |-> "Tick", now |-> apmClock]
  /\ didTimer("Tick", tick(pomodoro, onComplete).timer,
              tick(pomodoro, onComplete).calls, NoArg)
  /\ UNCHANGED <<apmClock, apmAll, onComplete>>

ApmTick ==
  /\ EngineTick
  /\ UNCHANGED <<monitorVars, groupVars, streakVars, tuiVars, detVars,
                 concVars, fileVars, refreshVars>>

\* time passes up to a later reading of the clock
ApmTimePasses ==
  /\ \E t \in Instants :
       /\ t > apmClock
       /\ apmClock' = t
  /\ UNCHANGED <<apm, apmAll, apmLast>>
  /\ UNCHANGED notApmVars

NextApm ==
  \/ ApmRecordAction
  \/ ApmTick
  \/ ApmTimePasses

SpecApm == InitGame /\ [][NextApm]_vars

\* ---------------------------------------------------------- classification
\* a call DetectState(content, lastContent, lastCapture) (detector.go lines
\* 121-148); the last two arguments are not read
Classify ==
  /\ detIn # <<>>
  /\ detOut = "none"
  /\ detOut' = DetectState(detIn)
  /\ UNCHANGED detIn
  /\ UNCHANGED notDetVars

\* a detector and a content to classify; the monitor is not started
InitDetect ==
  Init /\ debug = FALSE /\ live = {} /\ RichEnv /\ detIn # <<>>

SpecDetect == InitDetect /\ [][Classify]_vars

\* --------------------------------------------------------------- interface
\* monitorCmd (tui/model.go lines 181-189): the command receives one event
\* and hands it to Update as a SessionEventMsg; the next monitorCmd is
\* issued when Update has handled the message
MonitorCmd ==
  /\ tuiMsg = NoEvent
  /\ receive
  /\ tuiMsg' = Head(eventCh)
  /\ UNCHANGED <<tuiPc, tuiSessions, tuiLast, needsValidation>>
  /\ UNCHANGED <<timerVars, groupVars, streakVars, apmVars, detVars, concVars, fileVars, refreshVars>>

\* the event types whose handling begins with m.monitor.Sessions()
Refreshing ==
  {EventSessionDiscovered, EventSessionClosed, EventStateChanged}

\* Update on a SessionEventMsg: handleSessionEvent (lines 921-980), as far
\* as the control groups, the streak tracker and m.sessions go.
\* Sessions() takes the monitor's read lock.  For a closed event of an
\* interface with a store, the deletion of the session's row (line 950)
\* is still to come when the lock is released.  The store of the
\* interface is the database the monitor was given, if it was given one.
HandleSessionEvent ==
  /\ tuiMsg # NoEvent
  /\ tuiPc = "idle"
  /\ tuiMsg.Type \in Refreshing => mu = "none"
  /\ tuiSessions' = IF tuiMsg.Type \in Refreshing THEN Tracked
                    ELSE tuiSessions
  /\ controlGrps' = IF tuiMsg.Type = EventSessionClosed
                    THEN RemoveSession(controlGrps, tuiMsg.Session)
                    ELSE controlGrps
  /\ IF tuiMsg.Type \in {EventSessionClosed, EventStateChanged}
     THEN LET isActive == /\ tuiMsg.Type = EventStateChanged
                          /\ tuiMsg.State \in {StateThinking, StateActive}
          IN  /\ streak' = SetSessionActive(streak, tuiMsg.Session, isActive)
              /\ streakCalls' =
                   [streakCalls EXCEPT ![tuiMsg.Session] =
                      IF isActive THEN "active" ELSE "inactive"]
     ELSE UNCHANGED <<streak, streakCalls>>
  /\ tuiLast' =
       IF tuiMsg.Type = EventSessionClosed
       THEN [Type |-> tuiMsg.Type, Session |-> tuiMsg.Session,
             held |-> \E g \in DOMAIN controlGrps.groups :
                        controlGrps.groups[g] = tuiMsg.Session,
             active |-> tuiMsg.Session \in DOMAIN streak.activeSessions]
       ELSE NoTuiLast
  /\ IF tuiMsg.Type = EventSessionClosed /\ store.present
     THEN tuiPc' = "delete" /\ UNCHANGED tuiMsg
     ELSE tuiMsg' = NoEvent /\ UNCHANGED tuiPc
  /\ UNCHANGED <<tapClock, cgLast, cgRecent, streakOut, needsValidation>>
  /\ UNCHANGED <<monitorVars, timerVars, apmVars, detVars, concVars,
                 fileVars, refreshVars>>

\* handleSessionEvent, line 950: the closed session's row is deleted from
\* the store, with no lock of the monitor held; Update returns
HandleClosedDelete ==
  /\ tuiPc = "delete"
  /\ \E err \in BOOLEAN : store' = DeleteSession(tuiMsg.Session, err)
  /\ tuiMsg' = NoEvent
  /\ tuiPc' = "idle"
  /\ UNCHANGED <<tuiSessions, tuiLast, needsValidation>>
  /\ UNCHANGED <<noStoreVars, timerVars, groupVars, streakVars, apmVars,
                 detVars, concVars, fileVars, refreshVars>>

\* Update on a key for which handleKey calls Engine.RecordAction once, at
\* line 580, and changes nothing else of what is modelled here: a key
\* that closes an overlay, tab, a key no case is for, enter with no entry
\* of m.sessions selected.  Enter on a selected entry is EnterKey.
PlainKey ==
  /\ tuiPc = "idle"
  /\ EngineRecordActions(1)
  /\ tuiLast' = NoTuiLast
  /\ UNCHANGED <<tuiMsg, tuiPc, tuiSessions, needsValidation>>
  /\ UNCHANGED <<monitorVars, timerVars, groupVars, streakVars, detVars,
                 concVars, fileVars, refreshVars>>

\* Update on enter with an entry of m.sessions selected (lines 580 and
\* 659-670): the key press is recorded; for a session that needs input
\* the key is passed on to its pane, for any other the client is switched
\* to the session and the switch is recorded as well.  The state is read
\* through the entry's pointer, with no lock: it is the state the
\* monitor's record has, unless the record was retired since m.sessions
\* was taken, in which case the closed event is still to be handled and
\* the pointer shows the state the retired record was left with.
EnterKey ==
  /\ tuiPc = "idle"
  /\ \E session \in tuiSessions :
       LET closedPending ==
             \E e \in Range(outbox) \cup Range(eventCh) \cup {tuiMsg} :
               e.Type = EventSessionClosed /\ e.Session = session
       IN
       \E State \in
            (IF session \in Tracked THEN {sessions[session].State} ELSE {})
            \cup (IF closedPending
                  THEN {StateIdle, StateActive, StateThinking, StateUrgent}
                  ELSE {}) :
         EngineRecordActions(IF State = StateUrgent THEN 1 ELSE 2)
  /\ tuiLast' = NoTuiLast
  /\ UNCHANGED <<tuiMsg, tuiPc, tuiSessions, needsValidation>>
  /\ UNCHANGED <<monitorVars, timerVars, groupVars, streakVars, detVars,
                 concVars, fileVars, refreshVars>>

\* Update on "p" (lines 580, 686-688): the key press is recorded, the
\* timer is toggled and the toggle is recorded.  Update's goroutine is the
\* only one that calls the timer, so nothing falls between Toggle's read
\* of the state and the call it makes.
PomodoroKey ==
  /\ tuiPc = "idle"
  /\ EngineRecordActions(2)
  /\ didTimer("Toggle", toggle(pomodoro), 0, NoArg)
  /\ tuiLast' = NoTuiLast
  /\ UNCHANGED <<onComplete, tuiMsg, tuiPc, tuiSessions, needsValidation>>
  /\ UNCHANGED <<monitorVars, groupVars, streakVars, detVars, concVars,
                 fileVars, refreshVars>>

\* Update on "P" (lines 580, 690-691): the key press is recorded and the
\* timer is stopped
PomodoroStopKey ==
  /\ tuiPc = "idle"
  /\ EngineRecordActions(1)
  /\ didTimer("Stop", stop(pomodoro), 0, NoArg)
  /\ tuiLast' = NoTuiLast
  /\ UNCHANGED <<onComplete, tuiMsg, tuiPc, tuiSessions, needsValidation>>
  /\ UNCHANGED <<monitorVars, groupVars, streakVars, detVars, concVars,
                 fileVars, refreshVars>>

\* Update on a digit key in group-assign mode: handleKey records the key
\* press (line 580), the selected entry of m.sessions is assigned to the
\* group and the assignment is recorded (lines 597-612)
GroupAssignKey(groupNum) ==
  /\ tuiPc = "idle"
  /\ \E session \in tuiSessions :
       controlGrps' = Assign(controlGrps, groupNum, session)
  /\ EngineRecordActions(2)
  /\ tuiLast' = NoTuiLast
  /\ UNCHANGED <<tapClock, cgLast, cgRecent, tuiMsg, tuiPc, tuiSessions,
                 needsValidation>>
  /\ UNCHANGED <<monitorVars, timerVars, streakVars, detVars, concVars,
                 fileVars, refreshVars>>

\* Update on a digit key outside group-assign mode: handleKey records the
\* key press (line 580) and calls Cycle (lines 693-707); a double tap on a
\* group that holds a session switches to it and is recorded as well
CycleKey(groupNum) ==
  LET r == Cycle(controlGrps, groupNum, tapClock) IN
  /\ tuiPc = "idle"
  /\ controlGrps' = r.c
  /\ EngineRecordActions(IF r.session # "" /\ r.doubleTap THEN 2 ELSE 1)
  /\ tuiLast' = NoTuiLast
  /\ UNCHANGED <<tapClock, cgLast, cgRecent, tuiMsg, tuiPc, tuiSessions,
                 needsValidation>>
  /\ UNCHANGED <<monitorVars, timerVars, streakVars, detVars, concVars,
                 fileVars, refreshVars>>

\* Update on the second "d" within the delay, with an entry of m.sessions
\* selected (lines 741-752): the key press is recorded, tmux is told to
\* kill the session and m.sessions is taken from the monitor again, under
\* its read lock.  What tmux lists afterwards is the choice of PollBegin.
KillKey ==
  /\ tuiPc = "idle"
  /\ tuiSessions # {}
  /\ mu = "none"
  /\ tuiSessions' = Tracked
  /\ EngineRecordActions(1)
  /\ tuiLast' = NoTuiLast
  /\ UNCHANGED <<groupVars, tuiMsg, tuiPc, needsValidation>>
  /\ UNCHANGED <<monitorVars, timerVars, streakVars, detVars, concVars,
                 fileVars, refreshVars>>

\* Update on enter in input mode with a name typed in (lines 353-411): if
\* tmux creates the session, the first free group, if there is one, is
\* assigned the name and m.sessions is taken from the monitor again; the
\* key is not handed to handleKey.
CreateSessionEnter ==
  /\ tuiPc = "idle"
  /\ \E name \in live : \E created \in BOOLEAN :
       LET groupNum == FirstFreeGroup(controlGrps) IN
       IF created
       THEN /\ mu = "none"
            /\ controlGrps' = IF groupNum > 0
                              THEN Assign(controlGrps, groupNum, name)
                              ELSE controlGrps
            /\ tuiSessions' = Tracked
       ELSE UNCHANGED <<controlGrps, tuiSessions>>
  /\ tuiLast' = NoTuiLast
  /\ UNCHANGED <<tapClock, cgLast, cgRecent, tuiMsg, tuiPc,
                 needsValidation>>
  /\ UNCHANGED <<monitorVars, timerVars, streakVars, apmVars, detVars,
                 concVars, fileVars, refreshVars>>

\* GroupsForSession (part_003 lines 119-130)
GroupsForSession(c, session) ==
  {g \in DOMAIN c.groups : c.groups[g] = session}

\* the registry after Assign(groupNum, newName) for every group of
\* GroupsForSession(oldName) (tui/model.go lines 438-440)
reassigned(c, oldName, newName) ==
  [c EXCEPT !.groups =
     [g \in DOMAIN c.groups |->
        IF g \in GroupsForSession(c, oldName) THEN newName
        ELSE c.groups[g]]]

\* Update on enter in rename mode with a new name typed in for the
\* selected entry of m.sessions (lines 425-443): tmux is told to rename
\* the session (line 433); if it does, the session's groups are assigned
\* to the new name, which only Update's goroutine looks at, and
\* m.sessions is still to be taken from the monitor; the key is not
\* handed to handleKey
RenameEnter ==
  /\ tuiPc = "idle"
  /\ \E oldName \in tuiSessions : \E newName \in Names \ {oldName} :
     \E renamed \in BOOLEAN :
       IF renamed
       THEN /\ oldName \in live
            /\ newName \notin live
            /\ live' = (live \ {oldName}) \cup {newName}
            /\ controlGrps' = reassigned(controlGrps, oldName, newName)
            /\ tuiPc' = "renamed"
       ELSE UNCHANGED <<live, controlGrps, tuiPc>>
  /\ tuiLast' = NoTuiLast
  /\ UNCHANGED <<tapClock, cgLast, cgRecent, tuiMsg, tuiSessions,
                 needsValidation>>
  /\ UNCHANGED <<sessions, eventCh, stopCh, debug, usagePollTick, mu,
                 tickerC, pc, pollKind, tmuxSessions, seen, cur, outbox,
                 listOK, listed, trackedAtStart, cycleObs, cycleEvents,
                 lastEv, lifeOK, lastSent, adjOK, inflight, recvOK>>
  /\ UNCHANGED extVars
  /\ UNCHANGED <<timerVars, streakVars, apmVars, detVars, concVars,
                 fileVars, refreshVars>>

\* Update after a rename, line 448: m.sessions = m.monitor.Sessions(),
\* under the monitor's read lock, whatever the poll goroutine has done
\* since tmux renamed the session; Update returns
RenameRefresh ==
  /\ tuiPc = "renamed"
  /\ mu = "none"
  /\ tuiSessions' = Tracked
  /\ tuiPc' = "idle"
  /\ UNCHANGED <<tuiMsg, tuiLast, needsValidation>>
  /\ UNCHANGED <<monitorVars, timerVars, groupVars, streakVars, apmVars,
                 detVars, concVars, fileVars, refreshVars>>

\* the steps of a run of the monitor with the interface as its consumer,
\* in which Stop is not called.  The interface has no store, so
\* handleSessionEvent deletes no row.
NextTui ==
  \/ Start
  \/ Tick
  \/ SelectTick
  \/ PollBegin
  \/ Capture
  \/ Update
  \/ LoopEnd
  \/ Retire
  \/ RetireEnd
  \/ PollReturn
  \/ UpdateUsage
  \/ Send
  \/ MonitorCmd
  \/ HandleSessionEvent
  \/ GroupAssignKey(1)

SpecTui == InitOne /\ [][NextTui]_vars

\* such a run with a session whose panes show an idle or a thinking
\* Claude
SpecClosed == InitWork /\ [][NextTui]_vars

\* the steps of such a run in which no key is pressed
NextInterface ==
  \/ Start
  \/ Tick
  \/ SelectTick
  \/ PollBegin
  \/ Capture
  \/ Update
  \/ LoopEnd
  \/ Retire
  \/ RetireEnd
  \/ PollReturn
  \/ UpdateUsage
  \/ Send
  \/ MonitorCmd
  \/ HandleSessionEvent

\* the run with the digit keys, the kill key, enter and a key that is
\* only recorded
NextKeys ==
  \/ NextInterface
  \/ CycleKey(1)
  \/ KillKey
  \/ PlainKey
  \/ EnterKey

SpecKeys == InitOne /\ [][NextKeys]_vars

\* the run with sessions created from the interface
NextCreate ==
  \/ NextInterface
  \/ CreateSessionEnter

SpecCreate == InitOne /\ [][NextCreate]_vars


\* the run with the keys of the timer
NextTimerKeys ==
  \/ NextInterface
  \/ PomodoroKey
  \/ PomodoroStopKey

SpecTimerKeys == InitOne /\ [][NextTimerKeys]_vars

\* Claude starts the transcript <id>.jsonl in the project directory with
\* a first assistant record; the file becomes the most recently modified
\* one
StartTranscript ==
  /\ \E id \in TranscriptIds :
       /\ tokens[id] = 0
       /\ tokens' = [tokens EXCEPT ![id] = 1]
       /\ files' = files \o <<id>>
  /\ UNCHANGED <<sessions, eventCh, stopCh, debug, usagePollTick, mu, tickerC,
                 pc, pollKind, tmuxSessions, seen, cur, outbox>>
  /\ UNCHANGED histVars
  /\ UNCHANGED <<paths, shown, store, reader, sessAtStart, idHist, tickPolls>>
  /\ UNCHANGED otherVars

\* the steps of a run in which Claude starts transcripts, the interface is
\* the monitor's consumer and has the monitor's store, if that has one,
\* and Stop is not called
NextStore ==
  \/ Start
  \/ Tick
  \/ SelectTick
  \/ PollBegin
  \/ Capture
  \/ Update
  \/ InitialUsage
  \/ Discover
  \/ LoopEnd
  \/ Retire
  \/ RetireEnd
  \/ PollReturn
  \/ UpdateUsage
  \/ UsageRead
  \/ UsageAssign
  \/ Send
  \/ MonitorCmd
  \/ HandleSessionEvent
  \/ HandleClosedDelete
  \/ StartTranscript

SpecStore == InitStore /\ [][NextStore]_vars

\* the steps of a run in which Claude starts transcripts, a consumer
\* receives the events and Stop is not called
NextLock ==
  \/ Start
  \/ Tick
  \/ SelectTick
  \/ PollBegin
  \/ Capture
  \/ Update
  \/ InitialUsage
  \/ Discover
  \/ LoopEnd
  \/ Retire
  \/ RetireEnd
  \/ PollReturn
  \/ UpdateUsage
  \/ UsageRead
  \/ UsageAssign
  \/ Send
  \/ Recv
  \/ StartTranscript

SpecLock == InitStore /\ [][NextLock]_vars

\* ------------------------------------------------- usage: parser and watcher
\* A transcript is a sequence of lines.  A line is its length in bytes and
\* what encoding/json makes of it: "invalid" is not JSON, "mistyped" is a
\* JSON object in which a value has another type than the jsonlMessage
\* field it is for (Unmarshal fills what it can and returns the error),
\* "object" is a JSON object that fits; keys are the keys present.
Line(bytes, json, keys, type, model, usage) ==
  [bytes |-> bytes, json |-> json, keys |-> keys, Type |-> type,
   Model |-> model, Usage |-> usage]

Counters(i, o, cc, cr) ==
  [InputTokens |-> i, OutputTokens |-> o, CacheCreationInputTokens |-> cc,
   CacheReadInputTokens |-> cr]

\* the lines Claude appends in the model: an empty line, a line that is not
\* JSON, a user record carrying counters, assistant records with and
\* without a model, and an assistant record with a counter of the wrong
\* type
SampleLines ==
  {Line(0, "none", {}, "", "", ZeroUsage),
   Line(1, "invalid", {}, "", "", ZeroUsage),
   Line(3, "object", {"type", "model", "usage"}, "user", "m0",
        Counters(1, 1, 1, 1)),
   Line(4, "object", {"type", "model", "usage"}, "assistant", "m1",
        Counters(1, 0, MaxTokens, 0)),
   Line(4, "object", {"type", "model", "usage"}, "assistant", "m2",
        Counters(0, MaxTokens, 0, 1)),
   Line(3, "object", {"type", "usage"}, "assistant", "",
        Counters(0, 1, 1, 0)),
   Line(3, "mistyped", {"type", "model", "usage"}, "assistant", "m1",
        Counters(1, 0, 0, 0))}

\* variant of Add: the output counter is added to the input counter too
AddOutputToInput(t, other) ==
  [InputTokens |-> t.InputTokens + other.InputTokens + other.OutputTokens,
   OutputTokens |-> t.OutputTokens + other.OutputTokens,
   CacheCreationInputTokens |->
     t.CacheCreationInputTokens + other.CacheCreationInputTokens,
   CacheReadInputTokens |->
     t.CacheReadInputTokens + other.CacheReadInputTokens]

\* TokenUsage.Add (types.go lines 13-19).  The counters of the model stay
\* far below 2^63.
Add(t, other) ==
  [InputTokens |-> t.InputTokens + other.InputTokens,
   OutputTokens |-> t.OutputTokens + other.OutputTokens,
   CacheCreationInputTokens |->
     t.CacheCreationInputTokens + other.CacheCreationInputTokens,
   CacheReadInputTokens |->
     t.CacheReadInputTokens + other.CacheReadInputTokens]

\* TokenUsage.TotalInput (types.go lines 21-24)
TotalInput(t) ==
  t.InputTokens + t.CacheCreationInputTokens + t.CacheReadInputTokens

\* json.Unmarshal(line, &msg) into a zero jsonlMessage: the fields of the
\* keys present are set, the others keep their zero values; the error is
\* non-nil for a line that is not JSON or has a value of the wrong type
Unmarshal(line) ==
  [err |-> line.json # "object",
   Type |-> IF "type" \in line.keys THEN line.Type ELSE "",
   Model |-> IF line.json = "object" /\ "model" \in line.keys
             THEN line.Model ELSE "",
   Usage |-> IF line.json = "object" /\ "usage" \in line.keys
             THEN line.Usage ELSE ZeroUsage]

\* variant of scanLines: the type of the record is not looked at
RECURSIVE scanLinesAnyType(_, _, _)
scanLinesAnyType(lines, i, usage) ==
  IF i > Len(lines) THEN usage
  ELSE IF lines[i].bytes = 0 THEN scanLinesAnyType(lines, i + 1, usage)
  ELSE LET msg == Unmarshal(lines[i]) IN
       IF msg.err THEN scanLinesAnyType(lines, i + 1, usage)
       ELSE scanLinesAnyType(lines, i + 1,
              [parsed |-> TRUE,
               TotalUsage |-> Add(usage.TotalUsage, msg.Usage),
               Model |-> IF msg.Model # "" THEN msg.Model
                         ELSE usage.Model])

\* ParseSessionFile's loop (parser.go lines 43-66) from line i on
RECURSIVE scanLines(_, _, _)
scanLines(lines, i, usage) ==
  IF i > Len(lines) THEN usage
  ELSE IF lines[i].bytes = 0 THEN scanLines(lines, i + 1, usage)
  ELSE LET msg == Unmarshal(lines[i]) IN
       IF msg.err THEN scanLines(lines, i + 1, usage)
       ELSE IF msg.Type = "assistant"
       THEN scanLines(lines, i + 1,
              [parsed |-> TRUE,
               TotalUsage |-> Add(usage.TotalUsage, msg.Usage),
               Model |-> IF msg.Model # "" THEN msg.Model
                         ELSE usage.Model])
       ELSE scanLines(lines, i + 1, usage)

\* ParseSessionFile (parser.go lines 26-73) of a file that can be opened
\* and has no over-long line: the totals and the model
ParseLines(lines) ==
  scanLines(lines, 1, [parsed |-> TRUE, TotalUsage |-> ZeroUsage,
                       Model |-> ""])

\* info.Size(): every line ends with a newline
RECURSIVE Size(_)
Size(lines) ==
  IF lines = <<>> THEN 0 ELSE lines[1].bytes + 1 + Size(Tail(lines))

\* variant of fileChanged: every call of updateSession parses
fileChangedAlways(size, mod, w) == TRUE

\* updateSession, line 326, negated: the file changed
fileChanged(size, mod, w) == ~(size = w.lastSize /\ mod = w.lastMod)

\* the lines Claude appends where the watcher's goroutines are looked at:
\* assistant records with counters
GrowLines ==
  {l \in SampleLines :
     l.json = "object" /\ l.Type = "assistant" /\ l.Model = "m1"}

\* Claude appends a line to the transcript; the modification time moves on
\* unless the clock's granularity hides it
AppendLine(lines) ==
  /\ Len(jsonl) < MaxLines
  /\ \E line \in lines : jsonl' = Append(jsonl, line)
  /\ \E later \in {fileMod, fileMod + 1} :
       /\ later \in ModTimes
       /\ fileMod' = later
  /\ wLast' = NoWatchLast
  /\ UNCHANGED <<watch, wStat, updateCh, usageSum, usageAdded>>
  /\ UNCHANGED notFileVars

\* the transcript's modification time changes without its content
Touch ==
  /\ fileMod + 1 \in ModTimes
  /\ fileMod' = fileMod + 1
  /\ wLast' = NoWatchLast
  /\ UNCHANGED <<jsonl, watch, wStat, updateCh, usageSum, usageAdded>>
  /\ UNCHANGED notFileVars

\* the session the watcher is looked at with
Watched == "b"

\* WatchSession (parser_test.go lines 220-258), as Monitor.poll calls it
\* for a discovered session
WatchSession(name) ==
  /\ \E found \in BOOLEAN : watch' = watchSession(name, found)
  /\ wLast' = NoWatchLast
  /\ UNCHANGED <<jsonl, fileMod, wStat, updateCh, usageSum, usageAdded>>
  /\ UNCHANGED notFileVars

\* UnwatchSession (lines 261-265), as Monitor.poll calls it for a retired
\* session
UnwatchSession(name) ==
  /\ watch' = unwatchSession(name)
  /\ wStat' = unwatched(name)
  /\ wLast' = NoWatchLast
  /\ UNCHANGED <<jsonl, fileMod, updateCh, usageSum, usageAdded>>
  /\ UNCHANGED notFileVars

\* the goroutine g is handed the sessionWatch the map holds for a name
\* and calls updateSession with it
handed(g) ==
  /\ wStat[g].pc = "idle"
  /\ \E name \in Names :
       /\ watch[name].present
       /\ wStat' = [wStat EXCEPT ![g] = [NoStat EXCEPT !.pc = "stat",
                                                       !.name = name,
                                                       !.attached = TRUE]]
  /\ wLast' = NoWatchLast
  /\ UNCHANGED <<jsonl, fileMod, watch, updateCh, usageSum, usageAdded>>
  /\ UNCHANGED notFileVars

\* poll (lines 306-317) on a tick of the watcher's pollLoop: the entries
\* of the map are copied under the read lock, and updateSession is called
\* for one after the other
WatcherPoll == handed("poll")

\* RefreshSession (lines 280-290) called by another goroutine: the entry
\* is looked up under the read lock
RefreshSession == handed("refresh")

\* what an unlocked read of lastSize and one of lastMod (line 326) may
\* give the goroutine g at this instant: the field of the sessionWatch it
\* was given or what another goroutine is storing in it under the lock
Recorded(g) ==
  IF ~wStat[g].attached
  THEN [lastSize |-> {wStat[g].rec.lastSize},
        lastMod |-> {wStat[g].rec.lastMod}]
  ELSE LET entry == watch[wStat[g].name]
           storing == {h \in Updaters \ {g} :
                         /\ wStat[h].pc = "store"
                         /\ wStat[h].name = wStat[g].name}
       IN [lastSize |-> {entry.lastSize} \cup
                          {wStat[h].size : h \in storing},
           lastMod |-> {entry.lastMod} \cup
                         {wStat[h].mod : h \in storing}]

\* what updateSession saw and did when it returns without a parse or
\* leaves its locked section: what os.Stat gave, what the change test read
\* from the sessionWatch, whether it stored, and the entry's usage before
\* and after
Returned(parsed, size, mod, saw, wrote, before, after) ==
  [op |-> "update", parsed |-> parsed, size |-> size, mod |-> mod,
   recSize |-> saw.lastSize, recMod |-> saw.lastMod,
   wrote |-> wrote, usageBefore |-> before, usageAfter |-> after,
   chBefore |-> updateCh]

\* updateSession (lines 320-323): os.Stat of the transcript; the call
\* returns if it fails
UpdateStat(g) ==
  /\ wStat[g].pc = "stat"
  /\ \E statErr \in BOOLEAN :
       wStat' = [wStat EXCEPT ![g] =
                   IF statErr THEN NoStat
                   ELSE [@ EXCEPT !.pc = "compare",
                                  !.size = Size(jsonl),
                                  !.mod = fileMod]]
  /\ wLast' = NoWatchLast
  /\ UNCHANGED <<jsonl, fileMod, watch, updateCh, usageSum, usageAdded>>
  /\ UNCHANGED notFileVars

\* updateSession (line 326), the left operand of the change test:
\* lastSize of the sessionWatch is read with no lock held and compared
\* with the size os.Stat gave before; when they differ the && reads no
\* lastMod and the call goes on to parse
UpdateCompare(g) ==
  /\ wStat[g].pc = "compare"
  /\ \E lastSize \in Recorded(g).lastSize :
       wStat' = [wStat EXCEPT
                   ![g].pc = IF wStat[g].size = lastSize THEN "compareMod"
                             ELSE "parse",
                   ![g].saw = [@ EXCEPT !.lastSize = lastSize]]
  /\ wLast' = NoWatchLast
  /\ UNCHANGED <<jsonl, fileMod, watch, updateCh, usageSum, usageAdded>>
  /\ UNCHANGED notFileVars

\* updateSession (lines 326-328), the right operand of the change test,
\* at a later instant: lastMod is read with no lock held and compared with
\* the modification time os.Stat gave; the call returns if the file did
\* not change
UpdateCompareMod(g) ==
  /\ wStat[g].pc = "compareMod"
  /\ \E lastMod \in Recorded(g).lastMod :
       LET saw == [wStat[g].saw EXCEPT !.lastMod = lastMod] IN
       IF fileChanged(wStat[g].size, wStat[g].mod, saw)
       THEN /\ wStat' = [wStat EXCEPT ![g].pc = "parse", ![g].saw = saw]
            /\ wLast' = NoWatchLast
       ELSE /\ wStat' = [wStat EXCEPT ![g] = NoStat]
            /\ wLast' = Returned(FALSE, wStat[g].size, wStat[g].mod, saw,
                                 FALSE, watch[wStat[g].name].usage,
                                 watch[wStat[g].name].usage)
  /\ UNCHANGED <<jsonl, fileMod, watch, updateCh, usageSum, usageAdded>>
  /\ UNCHANGED notFileVars

\* updateSession (lines 331-337): ParseSessionFile, with no lock held
UpdateParse(g) ==
  /\ wStat[g].pc = "parse"
  /\ \E parseErr \in BOOLEAN :
       wStat' = [wStat EXCEPT ![g] =
                   IF parseErr THEN NoStat
                   ELSE [@ EXCEPT !.pc = "store",
                                  !.usage = ParseLines(jsonl)]]
  /\ wLast' = NoWatchLast
  /\ UNCHANGED <<jsonl, fileMod, watch, updateCh, usageSum, usageAdded>>
  /\ UNCHANGED notFileVars

\* updateSession (lines 339-345): under the lock, the sessionWatch the map
\* holds for the name, if it holds one, gets the size and modification
\* time os.Stat returned and the usage
UpdateStore(g) ==
  LET name == wStat[g].name IN
  /\ wStat[g].pc = "store"
  /\ watch' = IF watch[name].present
              THEN [watch EXCEPT ![name].lastSize = wStat[g].size,
                                 ![name].lastMod = wStat[g].mod,
                                 ![name].usage = wStat[g].usage]
              ELSE watch
  /\ wStat' = [wStat EXCEPT ![g] = [NoStat EXCEPT !.pc = "notify",
                                                  !.name = name]]
  /\ wLast' = Returned(TRUE, wStat[g].size, wStat[g].mod, wStat[g].saw,
                       watch[name].present, watch[name].usage,
                       watch'[name].usage)
  /\ UNCHANGED <<jsonl, fileMod, updateCh, usageSum, usageAdded>>
  /\ UNCHANGED notFileVars

\* updateSession (lines 347-351): after the unlock, the notification,
\* which is dropped when the channel is full (nothing in the program
\* receives from Updates())
UpdateNotify(g) ==
  /\ wStat[g].pc = "notify"
  /\ updateCh' = IF updateCh < UpdateChCap THEN updateCh + 1
                 ELSE updateCh
  /\ wLast' = NoWatchLast
  /\ wStat' = [wStat EXCEPT ![g] = NoStat]
  /\ UNCHANGED <<jsonl, fileMod, watch, usageSum, usageAdded>>
  /\ UNCHANGED notFileVars

\* the watcher of a session that stays watched, with its pollLoop as the
\* only caller of updateSession
NextParse ==
  \/ AppendLine(SampleLines)
  \/ WatchSession(Watched)
  \/ WatcherPoll
  \/ UpdateStat("poll")
  \/ UpdateCompare("poll")
  \/ UpdateCompareMod("poll")
  \/ UpdateParse("poll")
  \/ UpdateStore("poll")
  \/ UpdateNotify("poll")

SpecParse == InitGame /\ [][NextParse]_vars

\* the watcher with the calls Monitor.poll makes and a caller of
\* RefreshSession
NextWatch ==
  \/ AppendLine(GrowLines)
  \/ Touch
  \/ WatchSession(Watched)
  \/ UnwatchSession(Watched)
  \/ WatcherPoll
  \/ RefreshSession
  \/ \E g \in Updaters : UpdateStat(g)
  \/ \E g \in Updaters : UpdateCompare(g)
  \/ \E g \in Updaters : UpdateCompareMod(g)
  \/ \E g \in Updaters : UpdateParse(g)
  \/ \E g \in Updaters : UpdateStore(g)
  \/ \E g \in Updaters : UpdateNotify(g)

SpecWatch == InitGame /\ [][NextWatch]_vars

\* the watcher as the program runs it, on the goroutine Monitor.Start
\* starts with usageWatcher.Start(): nothing in the program calls
\* RefreshSession, so updateSession runs on the pollLoop's goroutine only
NextWatchPoll ==
  \/ AppendLine(GrowLines)
  \/ Touch
  \/ WatchSession(Watched)
  \/ UnwatchSession(Watched)
  \/ WatcherPoll
  \/ UpdateStat("poll")
  \/ UpdateCompare("poll")
  \/ UpdateCompareMod("poll")
  \/ UpdateParse("poll")
  \/ UpdateStore("poll")
  \/ UpdateNotify("poll")

SpecWatchPoll == InitGame /\ [][NextWatchPoll]_vars

\* negative and larger counters
SampleUsages ==
  {Counters(i, o, cc, cr) : i \in {0, 1}, o \in {0, 1}, cc \in {0, 1},
                            cr \in {0, 1}}
  \cup {Counters(-1, MaxTokens, -MaxTokens, MaxTokens + 1)}

\* total.Add(u) on an accumulated total
UsageAdd ==
  /\ Len(usageAdded) < MaxAdds
  /\ \E u \in SampleUsages :
       /\ usageSum' = Add(usageSum, u)
       /\ usageAdded' = Append(usageAdded, u)
  /\ UNCHANGED <<jsonl, fileMod, watch, wStat, updateCh, wLast>>
  /\ UNCHANGED notFileVars

SpecTokens == InitGame /\ [][UsageAdd]_vars

\* ------------------------------------------------------------- start-up
\* All (part_003 lines 133-142): a copy of the assignments
All(c) == c.groups

\* Load (part_003 lines 145-153): the assignments are replaced by the
\* loaded ones
Load(c, groups) == [c EXCEPT !.groups = groups]

\* the assignments the store may hold at start-up: group 1 with one name
SavedGroups == {[g \in {1} |-> n] : n \in Names}

\* app.New (app.go lines 96-99), before Run starts the monitor: the saved
\* control groups are loaded if the store returns them
AppLoad ==
  /\ pc = "new"
  /\ controlGrps = NewControlGroups
  /\ \E groups \in SavedGroups : controlGrps' = Load(controlGrps, groups)
  /\ UNCHANGED <<tapClock, cgLast, cgRecent>>
  /\ UNCHANGED notGroupVars

\* validateControlGroups (tui/model.go lines 994-1007): every group of
\* All() whose session is not among the names of m.sessions is removed
RECURSIVE validateControlGroups(_, _, _)
validateControlGroups(c, todo, sessionNames) ==
  IF todo = {} THEN c
  ELSE LET groupNum == CHOOSE g \in todo : TRUE
           next == IF All(c)[groupNum] \notin sessionNames
                   THEN Remove(c, groupNum, All(c)[groupNum])
                   ELSE c
       IN validateControlGroups(next, todo \ {groupNum}, sessionNames)

\* Update on a TickMsg (tui/model.go lines 225-236): the first one takes
\* m.monitor.Sessions() under the monitor's read lock and validates the
\* control groups; every one calls Engine.Tick (engine.go lines 229-236),
\* that is Tick on the action-rate tracker and on the timer.  The
\* program runs once the monitor is started.
TuiTick ==
  /\ pc # "new"
  /\ tuiPc = "idle"
  /\ IF needsValidation
     THEN /\ mu = "none"
          /\ tuiSessions' = Tracked
          /\ controlGrps' = validateControlGroups(controlGrps,
                                                  DOMAIN All(controlGrps),
                                                  Tracked)
          /\ needsValidation' = FALSE
          /\ tuiLast' = [Type |-> "validated",
                         Session |-> Get(controlGrps, 1),
                         held |-> Get(controlGrps, 1) # "",
                         active |-> FALSE]
     ELSE UNCHANGED <<tuiSessions, controlGrps, needsValidation, tuiLast>>
  /\ EngineTick
  /\ UNCHANGED <<tuiMsg, tuiPc, tapClock, cgLast, cgRecent>>
  /\ UNCHANGED <<monitorVars, streakVars, detVars, concVars, fileVars, refreshVars>>

\* the steps of the application from app.New on, with the interface as
\* the monitor's consumer
NextStartup ==
  \/ AppLoad
  \/ Start
  \/ Tick
  \/ SelectTick
  \/ PollBegin
  \/ Capture
  \/ Update
  \/ LoopEnd
  \/ Retire
  \/ RetireEnd
  \/ PollReturn
  \/ UpdateUsage
  \/ Send
  \/ MonitorCmd
  \/ HandleSessionEvent
  \/ TuiTick

SpecStartup == InitReader /\ [][NextStartup]_vars

\* the run with saved control groups and sessions renamed from the
\* interface
NextRename ==
  \/ NextInterface
  \/ AppLoad
  \/ RenameEnter
  \/ RenameRefresh

SpecRename == InitOne /\ [][NextRename]_vars

\* ---------------------------------------------------------------- claims
HasType(evs, type) == \E i \in 1..Len(evs) : evs[i].Type = type

CountType(evs, type) == Cardinality({i \in 1..Len(evs) : evs[i].Type = type})

\* the state the classifier gives the content the cycle used for n
ObservedState(n) == DetectState(cycleObs[n].content)

\* the visit of n in this cycle captured monitorable content and n was
\* tracked when the cycle began
ReObserved(n) == cycleObs[n].kind = "processed" /\ n \in trackedAtStart

\* C1: for a tracked session whose content was captured and monitorable, a
\* state-changed event is produced in the cycle iff the new classification
\* differs from the recorded state; if they are equal the cycle produces no
\* state-changed, task-completed or urgent event for it.
C1_StateChangedIffDiffers ==
  \A n \in Names :
    ReObserved(n) =>
      /\ HasType(cycleEvents[n], EventStateChanged)
           <=> ObservedState(n) # cycleObs[n].old
      /\ ObservedState(n) = cycleObs[n].old =>
           /\ ~HasType(cycleEvents[n], EventStateChanged)
           /\ ~HasType(cycleEvents[n], EventTaskCompleted)
           /\ ~HasType(cycleEvents[n], EventUrgent)

\* a tracked session was re-observed in the state it already had
C1_Witness ==
  \E n \in Names :
    /\ ReObserved(n)
    /\ ObservedState(n) = cycleObs[n].old
    /\ pc = "loop"

\* C2: task-completed is produced exactly by a cycle that takes a session
\* from thinking to idle or active, as the event right after that cycle's
\* state-changed event, and on the channel it directly follows that
\* state-changed event.
C2_TaskCompletedRule ==
  /\ adjOK
  /\ \A n \in Names :
       LET evs == cycleEvents[n] IN
       /\ HasType(evs, EventTaskCompleted)
            <=> /\ ReObserved(n)
                /\ cycleObs[n].old = StateThinking
                /\ ObservedState(n) \in {StateIdle, StateActive}
       /\ HasType(evs, EventTaskCompleted) =>
            /\ Len(evs) = 2
            /\ evs[1] = Event(EventStateChanged, n, ObservedState(n), "")
            /\ evs[2] = Event(EventTaskCompleted, n, ObservedState(n), "")

\* a task-completed event has just been enqueued
C2_Witness ==
  \E n \in Names :
    /\ HasType(cycleEvents[n], EventTaskCompleted)
    /\ lastSent = <<EventTaskCompleted, n>>

\* C3: in a cycle whose listing succeeded, a listed session is never
\* deleted and gets no closed event, and when the cycle ends every session
\* that was tracked and is not listed has been deleted with exactly one
\* closed event.
C3_RetireRule ==
  listOK =>
    \A n \in Names :
      /\ n \in listed =>
           /\ ~HasType(cycleEvents[n], EventSessionClosed)
           /\ n \in trackedAtStart => n \in Tracked
      /\ CountType(cycleEvents[n], EventSessionClosed) <= 1
      /\ (pc = "return" /\ n \in trackedAtStart \ listed) =>
           /\ n \notin Tracked
           /\ CountType(cycleEvents[n], EventSessionClosed) = 1

\* a cycle ended that retired one tracked session and kept another
C3_Witness ==
  /\ pc = "return"
  /\ listOK
  /\ \E n, m \in trackedAtStart :
       /\ n \notin listed
       /\ m \in listed
       /\ lastSent = <<EventSessionClosed, n>>

\* C4: on the channel the events of one name form lifetimes: a discovered
\* event only as the first event of the name or right after its closed
\* event, and every state-changed, task-completed, urgent or closed event
\* only inside a lifetime, i.e. after a discovered event that no closed
\* event has followed yet.
C4_Lifetimes ==
  /\ lifeOK
  /\ \A n \in Names :
       lastEv[n] \in {"none", EventSessionClosed} =>
         \/ n \notin Tracked
         \/ HasType(outbox, EventSessionDiscovered)

\* a name whose lifetime ended with a closed event is tracked again and
\* the discovered event of its next lifetime is about to be sent
C4_Witness ==
  \E n \in Names :
    /\ lastEv[n] = EventSessionClosed
    /\ n \in Tracked
    /\ outbox = <<Event(EventSessionDiscovered, n, sessions[n].State, "")>>

\* C5: a listed, untracked session for which the cycle finds monitorable
\* content is added to the map with exactly one discovered event that
\* carries the classification of that content, and nothing else; one for
\* which no captured pane is monitorable stays untracked without events.
C5_DiscoveryRule ==
  \A n \in Names :
    (n \notin trackedAtStart /\ cycleObs[n].kind # "none") =>
      IF cycleObs[n].anyMon
      THEN /\ cycleObs[n].kind = "processed"
           /\ n \in Tracked
           /\ sessions[n].State = ObservedState(n)
           /\ cycleEvents[n] =
                <<Event(EventSessionDiscovered, n, ObservedState(n), "")>>
      ELSE /\ cycleObs[n].kind = "skipped"
           /\ n \notin Tracked
           /\ cycleEvents[n] = <<>>

\* a discovered event has just been enqueued for a newly tracked session
C5_Witness ==
  \E n \in Names :
    /\ n \notin trackedAtStart
    /\ cycleObs[n].kind = "processed"
    /\ lastSent = <<EventSessionDiscovered, n>>

\* the last line of the capture that is not blank after trimming, with the
\* escape sequences removed
LastNonBlank(content) ==
  LET text == stripANSI(content)
      idx == {i \in 1..Len(text) : TrimSpace(text[i]) # ""}
  IN IF idx = {} THEN ""
     ELSE TrimSpace(text[CHOOSE i \in idx : \A j \in idx : j <= i])

\* C6: a cycle in which a tracked session's state changes into needs-input
\* produces the state-changed event and then exactly one urgent event whose
\* message is the last non-empty line of the capture; no other cycle
\* produces an urgent event for the session.
C6_UrgentRule ==
  \A n \in Names :
    IF /\ ReObserved(n)
       /\ ObservedState(n) # cycleObs[n].old
       /\ ObservedState(n) = StateUrgent
    THEN cycleEvents[n] =
           <<Event(EventStateChanged, n, StateUrgent, ""),
             Event(EventUrgent, n, StateUrgent,
                   LastNonBlank(cycleObs[n].content))>>
    ELSE ~HasType(cycleEvents[n], EventUrgent)

\* an urgent event has just been enqueued
C6_Witness ==
  \E n \in Names :
    /\ HasType(cycleEvents[n], EventUrgent)
    /\ lastSent = <<EventUrgent, n>>

\* C7: every discovered, closed, state-changed, task-completed and urgent
\* event the poll loop produced is on the channel or still being sent, in
\* the order of production, and the consumer has received the others in
\* that order: none is lost, repeated or overtaken.
C7_NoEventLost ==
  /\ recvOK
  /\ NonDebug(eventCh \o outbox) = inflight

\* the channel is full of events that differ from one another, the
\* producer is waiting with a further one, and the consumer has received
\* events before: the discovered event of the session whose event is at
\* the head
C7_Witness ==
  /\ Len(eventCh) = EventChCap
  /\ Len(eventCh) >= 2
  /\ \A i, j \in 1..Len(eventCh) : i # j => eventCh[i] # eventCh[j]
  /\ outbox # <<>>
  /\ Head(outbox).Type # EventDebug
  /\ inflight = eventCh \o outbox
  /\ eventCh[1].Type \notin {EventSessionDiscovered, EventDebug}

\* C8 (the claim as stated): a debug event produced while the channel is
\* full is dropped, so the poll goroutine never waits with a debug event
\* for the consumer.
C8_DebugNeverWaits ==
  ~(/\ debug
    /\ outbox # <<>>
    /\ Head(outbox).Type = EventDebug
    /\ Len(eventCh) >= EventChCap)

\* C9 (the claim as stated): after Stop the poll goroutine eventually
\* leaves its loop, whatever the consumer does.
C9_StopLeadsToExit == stopCh ~> (pc = "exited")

\* C10 (the claim as stated): once Stop has been called the select of
\* pollLoop starts no further poll cycle.
C10_NoCycleAfterStop ==
  [][(stopCh /\ pc = "select") => (pc' # "poll")]_vars

\* C11 (the claim as stated): a record handed out by Sessions() or
\* GetSession() is a snapshot: what the reader sees through it (state,
\* content, last line, pane reference, usage) stays what it was when the
\* record was handed out, whatever later poll cycles and usage refreshes
\* do to the tracked session.
C11_ReaderSnapshot ==
  \A n \in Names : reader[n].held => reader[n].obj = reader[n].taken

\* C12: from discovery to retirement the record's locked transcript id is
\* the one assigned at discovery, whatever polls, refreshes and newer
\* transcript files came since, and a usage summary the record carries was
\* read from the transcript with that id.
C12_LockedIdStable ==
  \A n \in Tracked :
    /\ sessions[n].ClaudeSessionID = idHist[n].locked
    /\ sessions[n].Usage # NoUsage =>
         sessions[n].Usage.SessionID = idHist[n].locked

\* a session locked on the then newest transcript s1 has had its usage
\* refreshed after s2 became the newest transcript
C12_Witness ==
  \E n \in Tracked :
    /\ idHist[n].newest = "s1"
    /\ idHist[n].locked = "s1"
    /\ files # <<>>
    /\ files[Len(files)] = "s2"
    /\ idHist[n].usageFrom = "refresh"
    /\ sessions[n].Usage = [SessionID |-> "s1", tokens |-> tokens["s1"]]

\* the step of the poll that creates the record of n
Discovers(n) == sessions[n] = NoSession /\ sessions'[n] # NoSession

\* the step of the poll that settles the transcript id of the new
\* session n
LocksId(n) ==
  pc = "update" /\ cur.Name = n /\ sessions[n] = NoSession /\ pc' # "update"

\* C13 (the claim as stated): the discovery of a session locks the
\* non-empty id the store holds for the name, whichever file is newest,
\* and leaves the store as it is; otherwise it locks the id of the most
\* recently modified transcript of the working directory, and a store, if
\* the monitor has one, holds that id from then on, before the discovered
\* event is handed over for sending; with no transcript the id is empty
\* and the store is left as it is.  The record created carries the id
\* that was locked.
C13_LockAtDiscovery ==
  [][\A n \in Names :
       /\ LocksId(n) =>
            LET held == IF store.present THEN store.id[n] ELSE ""
                newest == IF cur'.workingDir = "" THEN ""
                          ELSE FindActiveSessionID(cur'.workingDir)
                locked == idHist'[n].locked
            IN
            /\ IF held # ""
               THEN /\ locked = held
                    /\ store' = store
               ELSE /\ locked = newest
                    /\ store.present /\ newest # "" => store'.id[n] = newest
                    /\ ~store.present \/ newest = "" => store' = store
       /\ Discovers(n) =>
            /\ HasType(outbox', EventSessionDiscovered)
            /\ sessions'[n].ClaudeSessionID = idHist'[n].locked]_vars

\* C13: the discovery of a session locks the non-empty id the read of the
\* store returned, whichever file is newest, and leaves the store as it
\* is; when the read returned none (no store, no id held for the name, or
\* a failed read) it locks the id of the most recently modified
\* transcript of the working directory and writes it to the store, if
\* the monitor has one, before the discovered event is handed over for
\* sending: the store then holds that id, or is as it was when the write
\* failed; with no transcript the id is empty and the store is left as it
\* is.  The read returns what the store holds for the name or nothing,
\* and the record created carries the id that was locked.
C13_LockBestEffort ==
  [][\A n \in Names :
       /\ LocksId(n) =>
            LET held == IF store.present THEN store.id[n] ELSE ""
                got == idHist'[n].got
                newest == IF cur'.workingDir = "" THEN ""
                          ELSE FindActiveSessionID(cur'.workingDir)
                locked == idHist'[n].locked
            IN
            /\ got \in {held, ""}
            /\ IF got # ""
               THEN /\ locked = got
                    /\ store' = store
               ELSE /\ locked = newest
                    /\ store.present /\ newest # "" =>
                         store' \in {store, [store EXCEPT !.id[n] = newest]}
                    /\ ~store.present \/ newest = "" => store' = store
       /\ Discovers(n) =>
            /\ HasType(outbox', EventSessionDiscovered)
            /\ sessions'[n].ClaudeSessionID = idHist'[n].locked]_vars

\* a session was discovered with the id the store held for its name while
\* another transcript was the newest, and the store still holds that id
C13_Witness ==
  \E n \in Tracked :
    /\ idHist[n].got = "s1"
    /\ idHist[n].locked = "s1"
    /\ idHist[n].newest = "s2"
    /\ sessions[n].ClaudeSessionID = "s1"
    /\ store.id[n] = "s1"

\* the running cycle is past its listing step
InCycle ==
  pc \in {"loop", "update", "content", "lastLine", "pane", "initialUsage",
          "create", "retire", "return"}

\* C14: a cycle in which tmux is not running or the listing fails returns
\* at once: the map and every record are as they were when the cycle
\* began, no session is retired, and the cycle produces no discovered,
\* closed, state-changed, task-completed or urgent event.
C14_FailedListingNoOp ==
  (InCycle /\ ~listOK) =>
    /\ pc = "return"
    /\ sessions = sessAtStart
    /\ Tracked = trackedAtStart
    /\ NonDebug(outbox) = <<>>
    /\ \A n \in Names : cycleEvents[n] = <<>>

\* a cycle that could not list the sessions is returning while a session
\* is tracked
C14_Witness ==
  /\ pc = "return"
  /\ ~listOK
  /\ pollKind = "tick"
  /\ Tracked # {}

\* C15: a listed session for which the cycle found no monitorable capture
\* is skipped: its record, if it has one, is as the visit found it, it is
\* tracked iff it was when the cycle began (not retired, not discovered),
\* and the cycle produces no event for it; and
\* once the cycle is past its loop every listed session has been visited.
C15_SkipOnlyThatSession ==
  /\ \A n \in Names :
       (cycleObs[n].kind # "none" /\ ~cycleObs[n].anyMon) =>
         /\ cycleObs[n].kind = "skipped"
         /\ sessions[n] = cycleObs[n].rec
         /\ (n \in trackedAtStart) <=> (n \in Tracked)
         /\ cycleEvents[n] = <<>>
  /\ (listOK /\ pc \in {"retire", "return"}) =>
       \A n \in listed : cycleObs[n].kind # "none"

\* a tracked session was skipped and the session listed after it is being
\* processed in the same cycle
C15_Witness ==
  \E n \in trackedAtStart :
    /\ cycleObs[n].kind = "skipped"
    /\ ~cycleObs[n].anyMon
    /\ pc = "update"
    /\ cur.Name # n

\* a step of updateUsage changes nothing of the map but usage summaries of
\* tracked sessions that have a working directory
RefreshFrame ==
  InUpdateUsage =>
    \A n \in Names :
      /\ sessions'[n] = [sessions[n] EXCEPT !.Usage = sessions'[n].Usage]
      /\ sessions'[n].Usage # sessions[n].Usage =>
           n \in Tracked /\ sessions[n].WorkingDir # ""

\* C16: updateUsage runs when, and only when, five ticker-driven polls
\* have returned since the last one (or since the start), never after the
\* initial poll; the tick counter stays in 0..4; and a refresh changes
\* nothing but the usage summary of tracked sessions with a working
\* directory.
C16_RefreshEveryFifthPoll ==
  /\ [](/\ usagePollTick \in 0..4
        /\ tickPolls \in 0..5
        /\ (pc = "usage") <=> (tickPolls = 5)
        /\ InUpdateUsage => pollKind = "tick"
        /\ pc # "usage" => usagePollTick = tickPolls)
  /\ [][RefreshFrame]_vars

\* a refresh has just replaced the usage summary of a tracked session
C16_Witness ==
  /\ pc = "select"
  /\ tickPolls = 0
  /\ \E n \in Tracked :
       /\ idHist[n].usageFrom = "refresh"
       /\ sessions[n].Usage.tokens = 2

\* C17 (the claim as stated): a Resume or Toggle on a paused timer puts it
\* into work, short break or long break, and into the state it was paused
\* from if it was paused by Pause or Toggle; this holds too for a timer
\* that is paused because the persisted state "paused" was loaded.
C17_ResumeFromPaused ==
  (pLast.op \in {"Resume", "Toggle"}
     /\ pLast.before.state = PomodoroPaused) =>
    /\ pomodoro.state \in RunningStates
    /\ pLast.from.known => pomodoro.state = pLast.from.state

\* C18: Toggle on a stopped timer gives work with the full work duration;
\* on a running timer it gives paused with the remaining time unchanged;
\* on a timer paused from running state X it gives X with the remaining
\* time unchanged.
C18_Toggle ==
  pLast.op = "Toggle" =>
    /\ pLast.before.state = PomodoroStopped =>
         /\ pomodoro.state = PomodoroWork
         /\ pomodoro.remaining = WorkMinutes
    /\ pLast.before.state \in RunningStates =>
         /\ pomodoro.state = PomodoroPaused
         /\ pomodoro.remaining = pLast.before.remaining
    /\ (pLast.before.state = PomodoroPaused /\ pLast.from.known) =>
         /\ pomodoro.state = pLast.from.state
         /\ pomodoro.remaining = pLast.before.remaining

\* Toggle has put a timer that was paused during a short break, with time
\* remaining, back into the short break
C18_Witness ==
  /\ pLast.op = "Toggle"
  /\ pLast.before.state = PomodoroPaused
  /\ pLast.from = [known |-> TRUE, state |-> PomodoroShortBreak]
  /\ pomodoro.state = PomodoroShortBreak
  /\ pomodoro.remaining = ShortBreakMinutes

\* the last operation was a Tick that used up the remaining time of the
\* state s
Consumed(s) ==
  /\ pLast.op = "Tick"
  /\ pLast.before.state = s
  /\ pLast.before.remaining <= pLast.before.sinceTick

\* C19: a Tick that uses up the remaining time of a work interval adds
\* one to the completed count and gives a short break of the short-break
\* duration, or, if the count thereby reaches the threshold, a long break
\* of the long-break duration with the count back at 0; no other
\* operation changes the count, which stays in 0..threshold-1.
C19_CompletedCount ==
  /\ pomodoro.completed \in 0..(SessionsBeforeLongBreak - 1)
  /\ Consumed(PomodoroWork) =>
       IF pLast.before.completed + 1 >= SessionsBeforeLongBreak
       THEN /\ pomodoro.state = PomodoroLongBreak
            /\ pomodoro.remaining = LongBreakMinutes
            /\ pomodoro.completed = 0
       ELSE /\ pomodoro.state = PomodoroShortBreak
            /\ pomodoro.remaining = ShortBreakMinutes
            /\ pomodoro.completed = pLast.before.completed + 1
  /\ ~Consumed(PomodoroWork) =>
       pomodoro.completed = pLast.before.completed

\* a Tick has ended the work interval that reached the threshold
C19_Witness ==
  /\ Consumed(PomodoroWork)
  /\ pLast.before.completed = SessionsBeforeLongBreak - 1
  /\ pomodoro.state = PomodoroLongBreak
  /\ pomodoro.completed = 0

\* C20: with a completion callback registered, an operation calls it
\* once if it is a Tick that takes the timer from work to a break and not
\* at all otherwise; a Tick that uses up the remaining time of a break
\* gives work with the full work duration.
C20_CompletionCallback ==
  /\ pLast.calls =
       (IF onComplete /\ Consumed(PomodoroWork) THEN 1 ELSE 0)
  /\ Consumed(PomodoroWork) =>
       pomodoro.state \in {PomodoroShortBreak, PomodoroLongBreak}
  /\ (Consumed(PomodoroShortBreak) \/ Consumed(PomodoroLongBreak)) =>
       /\ pomodoro.state = PomodoroWork
       /\ pomodoro.remaining = WorkMinutes

\* a Tick has ended a work interval and called the registered callback
C20_Witness ==
  /\ onComplete
  /\ Consumed(PomodoroWork)
  /\ pomodoro.state = PomodoroShortBreak
  /\ pLast.calls = 1

\* the timer's state, remaining time and completed count are as before the
\* last operation
SameTimer ==
  /\ pomodoro.state = pLast.before.state
  /\ pomodoro.remaining = pLast.before.remaining
  /\ pomodoro.completed = pLast.before.completed

\* C21: Start on a stopped timer gives work with the configured work
\* duration; Start in any other state leaves state, remaining time and
\* completed count as they were; a Tick on a stopped or paused timer
\* changes nothing.
C21_StartOnlyWhenStopped ==
  /\ pLast.op = "Start" =>
       IF pLast.before.state = PomodoroStopped
       THEN /\ pomodoro.state = PomodoroWork
            /\ pomodoro.remaining = WorkMinutes
            /\ pomodoro.completed = pLast.before.completed
       ELSE SameTimer
  /\ (pLast.op = "Tick"
        /\ pLast.before.state \in {PomodoroStopped, PomodoroPaused}) =>
       /\ SameTimer
       /\ pomodoro.pausedState = pLast.before.pausedState
       /\ pLast.calls = 0

\* Start was called on a timer in a short break with time remaining
C21_Witness ==
  /\ pLast.op = "Start"
  /\ pLast.before.state = PomodoroShortBreak
  /\ pLast.before.remaining = ShortBreakMinutes
  /\ pomodoro.state = PomodoroShortBreak

\* the state a state name stands for
Named(stateStr) ==
  IF stateStr = "paused" THEN PomodoroPaused
  ELSE IF stateStr = "work" THEN PomodoroWork
  ELSE IF stateStr = "short_break" THEN PomodoroShortBreak
  ELSE IF stateStr = "long_break" THEN PomodoroLongBreak
  ELSE PomodoroStopped

\* C22: SetState puts the timer in the named state (stopped for a name
\* that is none of the five) with exactly the given remaining time, and a
\* Tick on a running timer deducts the time since the timer was last
\* loaded, started, resumed or ticked, no more: neither the time before a
\* load nor the time spent paused is deducted.
C22_LoadAndResumeResetClock ==
  /\ pLast.op = "SetState" =>
       /\ pomodoro.state = Named(pLast.arg.stateStr)
       /\ pomodoro.remaining = pLast.arg.remaining
       /\ pomodoro.completed = pLast.before.completed
  /\ (pLast.op = "Tick" /\ pLast.before.state \in RunningStates) =>
       IF pLast.before.remaining > pLast.ref
       THEN /\ pomodoro.state = pLast.before.state
            /\ pomodoro.remaining = pLast.before.remaining - pLast.ref
       ELSE pomodoro.state # pLast.before.state

\* a timer was loaded as work with the full work duration; the Tick one
\* minute after the load has deducted one minute
C22_Witness ==
  /\ pLast.op = "Tick"
  /\ pLast.afterLoad
  /\ pLast.before.state = PomodoroWork
  /\ pLast.ref = 1
  /\ pLast.before.remaining = WorkMinutes
  /\ pomodoro.remaining = WorkMinutes - 1
  /\ pomodoro.state = PomodoroWork


\* the session a map of groups holds in a group ("" for none)
Held(m, g) == IF g \in DOMAIN m THEN m[g] ELSE ""

\* C23: Cycle(group) returns the session the group holds ("" if none) and
\* doubleTap = TRUE exactly when an earlier Cycle call on the same group
\* was made less than the threshold before this one (calls on other groups
\* do not count), and it records the time of the call as the group's last
\* tap whether or not the group is assigned: a group's last tap is the
\* time of the latest Cycle call on it.
C23_CycleDoubleTap ==
  /\ cgLast.op = "Cycle" =>
        /\ cgLast.ret = Held(cgLast.before, cgLast.groupNum)
        /\ cgLast.doubleTap = cgLast.recent
        /\ cgLast.groupNum \in DOMAIN controlGrps.lastTap
  /\ \A g \in GroupNums :
        LET calls == {p[2] : p \in {q \in cgRecent : q[1] = g}}
        IN  IF calls = {}
            THEN g \in DOMAIN controlGrps.lastTap =>
                   tapClock - controlGrps.lastTap[g] >= TapThreshold
            ELSE /\ g \in DOMAIN controlGrps.lastTap
                 /\ controlGrps.lastTap[g] \in calls
                 /\ \A t \in calls : t <= controlGrps.lastTap[g]

\* a double tap on a group that holds no session, while the other group
\* was never tapped
C23_Witness ==
  /\ cgLast.op = "Cycle"
  /\ cgLast.groupNum = 2
  /\ cgLast.doubleTap
  /\ cgLast.ret = ""
  /\ 1 \notin DOMAIN controlGrps.lastTap

\* C24: RemoveSession(s) leaves no group holding s and every group that
\* held another session unchanged; Remove(group, s) clears the group only
\* if it holds s and changes nothing otherwise.
C24_RemoveAndRemoveSession ==
  /\ cgLast.op = "RemoveSession" =>
        \A g \in AllGroups :
          Held(controlGrps.groups, g) =
            IF Held(cgLast.before, g) = cgLast.session
            THEN "" ELSE Held(cgLast.before, g)
  /\ cgLast.op = "Remove" =>
        \A g \in AllGroups :
          Held(controlGrps.groups, g) =
            IF g = cgLast.groupNum /\ Held(cgLast.before, g) = cgLast.session
            THEN "" ELSE Held(cgLast.before, g)

\* RemoveSession("a") on groups that all held "a" has emptied them
C24_Witness ==
  /\ cgLast.op = "RemoveSession"
  /\ cgLast.session = "a"
  /\ \A g \in GroupNums : Held(cgLast.before, g) = "a"
  /\ \A g \in GroupNums : Held(controlGrps.groups, g) = ""

\* C26: Assign(group, session) overwrites the group whatever it held: the
\* group then holds the given session and no other group changed.  (That
\* a group holds at most one session is the shape of the map; that one
\* session may be held by several groups is the witness.)
C26_AssignOverwrites ==
  cgLast.op = "Assign" =>
    \A g \in AllGroups :
      Held(controlGrps.groups, g) =
        IF g = cgLast.groupNum THEN cgLast.session
        ELSE Held(cgLast.before, g)

\* group 1 held "b" and group 2 held "a"; Assign(1, "a") has made both
\* groups hold "a"
C26_Witness ==
  /\ cgLast.op = "Assign"
  /\ cgLast.groupNum = 1
  /\ cgLast.session = "a"
  /\ Held(cgLast.before, 1) = "b"
  /\ Held(controlGrps.groups, 1) = "a"
  /\ Held(controlGrps.groups, 2) = "a"

\* C27: FirstFreeGroup returns the smallest group of 1..10 that holds no
\* session, returns 0 exactly when all ten hold one, never returns a group
\* that holds a session, and does not change the registry.
C27_FirstFreeGroup ==
  cgLast.op = "FirstFreeGroup" =>
    /\ controlGrps.groups = cgLast.before
    /\ (cgLast.free = 0) <=>
          (\A g \in AllGroups : Held(controlGrps.groups, g) # "")
    /\ cgLast.free # 0 =>
          /\ cgLast.free \in AllGroups
          /\ Held(controlGrps.groups, cgLast.free) = ""
          /\ \A g \in 1..(cgLast.free - 1) :
                Held(controlGrps.groups, g) # ""

\* all ten groups are assigned and FirstFreeGroup has returned 0
C27_Witness ==
  /\ cgLast.op = "FirstFreeGroup"
  /\ cgLast.free = 0
  /\ DOMAIN controlGrps.groups = AllGroups


\* the names whose most recent SetSessionActive call set them active
LastSetActive == {n \in StreakNames : streakCalls[n] = "active"}

\* C28: after any sequence of SetSessionActive calls Count() is the number
\* of distinct names whose most recent call set them active, and
\* Multiplier() is 1 when that number is 0 or 1 and otherwise the number
\* clamped to the configured cap.
C28_CountAndMultiplier ==
  LET n == Cardinality(LastSetActive)
  IN  /\ DOMAIN streak.activeSessions = LastSetActive
      /\ streakOut.op = "Count" => streakOut.count = n
      /\ streakOut.op = "Multiplier" =>
            streakOut.mult =
              IF n <= 1 THEN 1
              ELSE IF n <= StreakMultiplierCap THEN n
              ELSE StreakMultiplierCap

\* more names are active than the cap, one name was deactivated after
\* being activated, and Multiplier() has returned the cap
C28_Witness ==
  /\ streakOut.op = "Multiplier"
  /\ streakOut.mult = StreakMultiplierCap
  /\ Cardinality(LastSetActive) > StreakMultiplierCap
  /\ \E n \in StreakNames : streakCalls[n] = "inactive"


\* C25: when a cycle finds a tracked session no longer listed it emits
\* exactly one closed event for it, and once the interface has handled
\* that closed event no group holds the session and the session is not in
\* the streak tracker's active set.
C25_ClosedClearsSession ==
  /\ \A n \in Names :
        (listOK /\ pc = "return" /\ n \in trackedAtStart \ listed) =>
          CountType(cycleEvents[n], EventSessionClosed) = 1
  /\ tuiLast.Type = EventSessionClosed =>
        /\ \A g \in AllGroups :
              Held(controlGrps.groups, g) # tuiLast.Session
        /\ tuiLast.Session \notin DOMAIN streak.activeSessions

\* the interface has handled the closed event of a session that group 1
\* held and that was active in the streak tracker
C25_Witness ==
  /\ tuiLast.Type = EventSessionClosed
  /\ tuiLast.Session \in live
  /\ tuiLast.active
  /\ tuiLast.held
  /\ Held(controlGrps.groups, 1) = ""
  /\ streakCalls[tuiLast.Session] = "inactive"


\* the recorded times newer than the last call's time minus the window
Surviving ==
  SelectSeq(apmAll, LAMBDA t : t > apmLast.now - APMWindowSeconds)

\* C29: after RecordAction or Tick at time now the tracker keeps exactly
\* the recorded times newer than now minus the window; its rate is 0 if
\* none remain, and otherwise, with n of them and e the time since the
\* oldest, taken as at least one second, the integer part of n * 60s / e
\* if e is under a minute and n if not.
C29_ActionRate ==
  apmLast.op \in {"RecordAction", "Tick"} =>
    LET n == Len(Surviving)
        oldest == CHOOSE t \in Range(Surviving) :
                    \A u \in Range(Surviving) : t <= u
        e == IF apmLast.now - oldest < 1 THEN 1 ELSE apmLast.now - oldest
    IN  /\ apm.actions = Surviving
        /\ apm.current = IF n = 0 THEN 0
                         ELSE IF e < 60 THEN (n * 60) \div e
                         ELSE n

\* two actions survive a Tick one minute after the older of them, and the
\* rate is 2
C29_Witness ==
  /\ apmLast.op = "Tick"
  /\ Len(apm.actions) = 2
  /\ apmLast.now - apm.actions[1] = 60
  /\ apm.current = 2


\* the last 20 lines of a content with the escape sequences removed
Window(content) ==
  LET stripped == [i \in 1..Len(content) |->
                     IF content[i] = "<ESC>[1mAllow?<ESC>[0m" THEN "Allow?"
                     ELSE content[i]]
      from == IF Len(content) > 20 THEN Len(content) - 20 ELSE 0
  IN  [i \in 1..(Len(content) - from) |-> stripped[from + i]]

Matches(group, lines) == \E i \in 1..Len(lines) : lines[i] \in group

\* C30: the classification is needs-input if an urgent pattern matches in
\* the last 20 lines of the escape-stripped text, otherwise thinking if a
\* thinking pattern matches there, otherwise idle if an idle pattern
\* matches there, otherwise active; it is never the unknown state.
C30_ClassificationPriority ==
  detOut # "none" =>
    LET w == Window(detIn)
    IN  /\ detOut # StateUnknown
        /\ detOut =
             IF Matches({"Allow?", "Proceed? [Y/n]"}, w) THEN StateUrgent
             ELSE IF Matches({"Thinking... (esc to cancel)"}, w)
             THEN StateThinking
             ELSE IF Matches({"claude>", "claude>  "}, w) THEN StateIdle
             ELSE StateActive

\* a content of 21 lines whose first line asks for input between escape
\* sequences and whose last line is the prompt has classified as idle
C30_Witness ==
  /\ Len(detIn) = 21
  /\ detIn[1] = "<ESC>[1mAllow?<ESC>[0m"
  /\ detIn[21] = "claude>"
  /\ detOut = StateIdle


\* the configured duration of a running state
FullDuration(state) ==
  CASE state = PomodoroWork -> WorkMinutes
    [] state = PomodoroShortBreak -> ShortBreakMinutes
    [] state = PomodoroLongBreak -> LongBreakMinutes
    [] OTHER -> 0

\* C40: a Tick on a running timer whose elapsed time is at least the
\* remaining time makes exactly one transition, however long the elapsed
\* time: from work to a break, from a break to work, and the new phase
\* has its full configured duration.
C40_OneTransitionPerTick ==
  (/\ pLast.op = "Tick"
   /\ pLast.before.state \in RunningStates
   /\ pLast.before.remaining <= pLast.before.sinceTick) =>
    /\ IF pLast.before.state = PomodoroWork
       THEN pomodoro.state \in {PomodoroShortBreak, PomodoroLongBreak}
       ELSE pomodoro.state = PomodoroWork
    /\ pomodoro.remaining = FullDuration(pomodoro.state)

\* a Tick on a short break found the break's time used up and a whole work
\* interval more elapsed; the timer is at work with the full work duration
C40_Witness ==
  /\ pLast.op = "Tick"
  /\ pLast.before.state = PomodoroShortBreak
  /\ pLast.before.sinceTick - pLast.before.remaining >= WorkMinutes
  /\ pomodoro.state = PomodoroWork
  /\ pomodoro.remaining = WorkMinutes

\* C39: Toggle takes effect atomically: whenever no Toggle call is
\* running, the timer's state, remaining time and remembered resume state
\* are those some sequential order of the calls made so far gives, each
\* call placed between its start and its return.
C39_ToggleAtomic ==
  Pending = {} =>
    \E l \in lin :
      /\ l.t.state = pomodoro.state
      /\ l.t.remaining = pomodoro.remaining
      /\ l.t.pausedState = pomodoro.pausedState

\* the interface has handled every event the monitor has produced: none
\* waits to be sent, none is in the channel, none is being handled
AllProcessed == outbox = <<>> /\ eventCh = <<>> /\ tuiMsg = NoEvent

\* the tracked sessions whose recorded state is thinking or active
Working ==
  {n \in Tracked : sessions[n].State \in {StateThinking, StateActive}}

\* C38: once the interface has handled every event emitted so far, the
\* streak tracker's active set is the set of tracked sessions whose
\* recorded state is thinking or active, sessions discovered in one of
\* those states included.
C38_ActiveSetMatchesTracked ==
  AllProcessed => DOMAIN streak.activeSessions = Working

\* C36: whenever a tracked session's recorded state is needs-input and
\* the events of its last update have been sent, the last event sent for
\* it is the urgent event, so one has been emitted since it entered that
\* state; this includes a session discovered in that state.
C36_UrgentWhileNeedsInput ==
  \A n \in Tracked :
    (sessions[n].State = StateUrgent /\ outbox = <<>>) =>
      lastEv[n] = EventUrgent

\* C34: the poll loop is never blocked writing to the full event channel
\* while it holds the lock on the tracked sessions and the interface,
\* handling an event, waits for that lock in Sessions().
C34_NoDeadlock ==
  ~(/\ outbox # <<>>
    /\ sendBlocks(eventCh, Head(outbox))
    /\ mu = "poll"
    /\ tuiMsg # NoEvent
    /\ tuiMsg.Type \in Refreshing)

\* what the tracked map must show when the event e enters the channel
MapAhead(e) ==
  /\ e.Type = EventSessionDiscovered => e.Session \in Tracked
  /\ e.Type = EventStateChanged =>
       /\ e.Session \in Tracked
       /\ sessions[e.Session].State = e.State
  /\ e.Type = EventSessionClosed => e.Session \notin Tracked

\* C35: the tracked map is updated before the event is enqueued: when a
\* discovered event enters the channel its session is in the map, when a
\* state-changed event enters it the record holds the new state, and when
\* a closed event enters it the session is no longer in the map.
C35_MapUpdatedBeforeEnqueue ==
  [][(outbox # <<>> /\ eventCh' = Append(eventCh, Head(outbox))) =>
       MapAhead(Head(outbox))]_vars

\* a state-changed event has just entered the channel and the record of
\* its session holds the state it carries
C35_Witness ==
  /\ eventCh # <<>>
  /\ eventCh[Len(eventCh)].Type = EventStateChanged
  /\ lastSent = <<EventStateChanged, eventCh[Len(eventCh)].Session>>
  /\ eventCh[Len(eventCh)].Session \in Tracked
  /\ sessions[eventCh[Len(eventCh)].Session].State
       = eventCh[Len(eventCh)].State

\* C37: a group loaded at start-up for a session that is live in tmux and
\* that no poll has failed to find monitorable is still assigned when the
\* interface's start-up validation has run, however the first tick
\* interleaves with the monitor's initial poll.
C37_LoadedGroupSurvivesValidation ==
  (/\ tuiLast.Type = "validated"
   /\ tuiLast.held
   /\ tuiLast.Session \in live
   /\ cycleObs[tuiLast.Session].kind # "skipped") =>
    Get(controlGrps, 1) = tuiLast.Session

\* the lines that parse as records of type assistant
Counted(line) ==
  line.json = "object" /\ "type" \in line.keys /\ line.Type = "assistant"

\* the sum of one counter over the counted lines
RECURSIVE SumOf(_, _)
SumOf(lines, counter) ==
  IF lines = <<>> THEN 0
  ELSE (IF Counted(lines[1]) /\ "usage" \in lines[1].keys
        THEN lines[1].Usage[counter] ELSE 0)
       + SumOf(Tail(lines), counter)

\* the counted lines that carry a non-empty model
WithModel(lines) ==
  {i \in 1..Len(lines) :
     Counted(lines[i]) /\ "model" \in lines[i].keys /\ lines[i].Model # ""}

\* the model of the last of them, "" if there is none
LastModel(lines) ==
  IF WithModel(lines) = {} THEN ""
  ELSE lines[CHOOSE i \in WithModel(lines) :
               \A j \in WithModel(lines) : j <= i].Model

CounterNames == DOMAIN ZeroUsage

\* the goroutine g has just parsed the transcript in updateSession
JustParsed(g) == wStat[g].pc = "parse" /\ wStat'[g].pc = "store"

\* C31: parsing a transcript gives, for each of the four counters, the sum
\* of that counter over exactly the lines that parse as assistant records;
\* empty lines, lines that fail to parse and records of other types add
\* nothing and do not make the parse fail; the model is that of the last
\* assistant record with a non-empty one.
C31_ParseSumsAssistantRecords ==
  [][\A g \in Updaters :
       JustParsed(g) =>
         /\ wStat'[g].usage.parsed
         /\ \A c \in CounterNames :
              wStat'[g].usage.TotalUsage[c] = SumOf(jsonl, c)
         /\ wStat'[g].usage.Model = LastModel(jsonl)]_vars

\* the parse of a transcript with a user record that carries counters, an
\* assistant record with a model and a later one without
C31_Witness ==
  /\ wStat["poll"].pc = "store"
  /\ Len(jsonl) >= 3
  /\ \E i, j, k \in 1..Len(jsonl) :
       /\ ~Counted(jsonl[i]) /\ jsonl[i].Usage # ZeroUsage
       /\ j < k
       /\ Counted(jsonl[j]) /\ jsonl[j].Model = "m2"
       /\ Counted(jsonl[k]) /\ jsonl[k].Model = ""
  /\ wStat["poll"].usage.Model = "m2"
  /\ wStat["poll"].usage.TotalUsage.OutputTokens = MaxTokens + 1

\* os.Stat showed another size or modification time than the change test
\* read from the sessionWatch
StatDiffers == wLast.size # wLast.recSize \/ wLast.mod # wLast.recMod

\* C32: for a transcript that only grows by appended lines with
\* non-negative counters, no counter of the recorded usage decreases from
\* one refresh to the next; updateSession parses only when the file's size
\* or modification time differs from the recorded ones, and otherwise
\* leaves the recorded usage as it was and sends no notification.
C32_RefreshMonotoneAndOnChange ==
  wLast.op = "update" =>
    /\ wLast.parsed => StatDiffers
    /\ ~StatDiffers =>
         /\ ~wLast.parsed
         /\ wLast.usageAfter = wLast.usageBefore
         /\ updateCh = wLast.chBefore
    /\ (wLast.wrote /\ wLast.usageBefore.parsed) =>
         \A c \in CounterNames :
           wLast.usageAfter.TotalUsage[c]
             >= wLast.usageBefore.TotalUsage[c]

\* a refresh of a watched session that had a usage recorded found the
\* transcript grown, parsed it and recorded a usage with a larger counter
C32_Witness ==
  /\ wLast.op = "update"
  /\ wLast.parsed
  /\ wLast.wrote
  /\ wLast.size > wLast.recSize
  /\ wLast.usageBefore.parsed
  /\ \E c \in CounterNames :
       wLast.usageAfter.TotalUsage[c] > wLast.usageBefore.TotalUsage[c]

\* the total of a sequence of usages, added in order
RECURSIVE Total(_)
Total(us) ==
  IF us = <<>> THEN ZeroUsage
  ELSE Add(Total(SubSeq(us, 1, Len(us) - 1)), us[Len(us)])

\* C33: TotalInput is input + cache-write + cache-read, without output;
\* Add adds counter by counter, so it is commutative and associative, and
\* the total of the usages added does not depend on their order.
C33_UsageAlgebra ==
  LET n == Len(usageAdded)
      u == usageAdded
  IN
  /\ usageSum = Total(u)
  /\ TotalInput(usageSum) =
       usageSum.InputTokens + usageSum.CacheCreationInputTokens
       + usageSum.CacheReadInputTokens
  /\ \A i, j \in 1..n :
       /\ Add(u[i], u[j]) = Add(u[j], u[i])
       /\ \A c \in CounterNames : Add(u[i], u[j])[c] = u[i][c] + u[j][c]
  /\ \A i, j, k \in 1..n :
       Add(Add(u[i], u[j]), u[k]) = Add(u[i], Add(u[j], u[k]))
  /\ \A p \in Permutations(1..n) :
       Total([i \in 1..n |-> u[p[i]]]) = usageSum

\* three different usages were added, one of them with negative counters,
\* and the output counter makes the total differ from TotalInput
C33_Witness ==
  /\ Len(usageAdded) >= 3
  /\ usageAdded[1] # usageAdded[2]
  /\ usageAdded[2] # usageAdded[3]
  /\ usageAdded[1] # usageAdded[3]
  /\ \E i \in 1..Len(usageAdded) : usageAdded[i].InputTokens < 0
  /\ usageSum.OutputTokens > 0
  /\ TotalInput(usageSum) > 0

====
